---- MODULE Spec2Model ----
(***************************************************************************)
(* Verification model of the wellness analytics engine of                  *)
(* wellthread-oauth: trend classification (calculateTrends,                *)
(* calculateSimpleTrend), day alignment and pairwise correlation           *)
(* (groupDataByDate, calculateCorrelations, calculatePearsonCorrelation)   *)
(* and payload normalisation (extractNumericValue).                        *)
(*                                                                         *)
(* JavaScript numbers are modelled as exact rationals [k, n, d]; every     *)
(* series value of the rational part of the model is an integer, for which *)
(* the sums and products of the code are exact in IEEE-754 doubles.        *)
(***************************************************************************)
EXTENDS Integers, Sequences, FiniteSets, TLC

VARIABLES
    pc,           \* the operations that have run on the current input
    healthData,   \* the array handed to calculateTrends / calculateSimpleTrend
    trends,       \* value returned by calculateTrends
    simpleTrend,  \* value returned by calculateSimpleTrend
    payload,      \* the data handed to extractNumericValue
    extracted,    \* value returned by extractNumericValue
    x,            \* first array handed to calculatePearsonCorrelation
    y,            \* second array handed to calculatePearsonCorrelation
    pearsonXY,    \* calculatePearsonCorrelation(x, y)
    pearsonYX,    \* calculatePearsonCorrelation(y, x)
    corrData,     \* health_data rows fetched by the correlations handler
    correlations, \* value returned by calculateCorrelations
    xDec,         \* first array of decimal values, in tenths
    yDec,         \* second array of decimal values, in tenths
    pearsonDec,   \* calculatePearsonCorrelation on the two decimal arrays
    goal,         \* the health_goals row handed to calculateGoalProgress
    now,          \* the clock read by new Date()
    goalData,     \* the goal's health_data rows, in ascending date order
    progress,     \* value returned by calculateGoalProgress
    progressAgain,\* value returned by a later call on the same rows
    request,      \* the HTTP request an analytics/dashboard/insights handler got
    env,          \* what the store and the summarizer answer to that request
    response,     \* the handler's HTTP response
    effects,      \* store queries, summarizer calls, computations, in order
    postBody,     \* the body of a create request (POST of the data endpoint)
    storeEnv,     \* whether the store client exists and the insert succeeds
    healthStore,  \* the rows inserted into health_data so far
    postResponse, \* the status answered to the create request
    summaryData,  \* the health_data rows handed to the summary functions
    summary,      \* value returned by calculateSummary
    dataSummary,  \* value returned by prepareDataSummary (part_000)
    avgValue,     \* calculateAverageValue of the rows of each data type
    entryRows,    \* the health_data rows handed to the analyses, by date
    grouped,      \* value returned by groupDataByDate(entryRows)
    operands,     \* per row, the number each analysis reads from it
    callback,     \* the OAuth callback handler that serves the request
    search,       \* the query parameters of the callback request
    tokenData,    \* the body of the token endpoint's answer
    patientFhirId,\* the patient FHIR id the handler resolved
    knownPatient, \* the known patient that id matched
    attempted,    \* the resource types the fetch loop has gone through
    sent,         \* the requests sent to the EHR, in order
    upserts,      \* the upserts issued to the store, in order
    failed,       \* what has failed inside the fetch loop
    answer        \* the handler's HTTP response

trendVars == <<healthData, trends, simpleTrend>>
extractVars == <<payload, extracted>>
pearsonVars == <<x, y, pearsonXY, pearsonYX>>
corrVars == <<corrData, correlations>>
decimalVars == <<xDec, yDec, pearsonDec>>

progressVars == <<goal, now, goalData, progress, progressAgain>>

handlerVars == <<request, env, response, effects>>

createVars == <<postBody, storeEnv, healthStore, postResponse>>

summaryVars == <<summaryData, summary, dataSummary, avgValue>>

entryVars == <<entryRows, grouped, operands>>

oauthVars == <<callback, search, tokenData, patientFhirId, knownPatient, attempted, sent, upserts, failed, answer>>

notTrendVars == <<extractVars, pearsonVars, corrVars, decimalVars,
    progressVars,
    handlerVars,
    createVars,
    summaryVars,
    entryVars,
    oauthVars>>
notExtractVars == <<trendVars, pearsonVars, corrVars, decimalVars,
    progressVars,
    handlerVars,
    createVars,
    summaryVars,
    entryVars,
    oauthVars>>
notPearsonVars == <<trendVars, extractVars, corrVars, decimalVars,
    progressVars,
    handlerVars,
    createVars,
    summaryVars,
    entryVars,
    oauthVars>>
notCorrVars == <<trendVars, extractVars, pearsonVars, decimalVars,
    progressVars,
    handlerVars,
    createVars,
    summaryVars,
    entryVars,
    oauthVars>>
notDecimalVars == <<trendVars, extractVars, pearsonVars, corrVars,
    progressVars,
    handlerVars,
    createVars,
    summaryVars,
    entryVars,
    oauthVars>>

notProgressVars == <<trendVars, extractVars, pearsonVars, corrVars,
    decimalVars,
    handlerVars,
    createVars,
    summaryVars,
    entryVars,
    oauthVars>>

notHandlerVars == <<trendVars, extractVars, pearsonVars, corrVars, decimalVars, progressVars,
    createVars,
    summaryVars,
    entryVars,
    oauthVars>>

notCreateVars == <<trendVars, extractVars, pearsonVars, corrVars, decimalVars, progressVars, handlerVars,
    summaryVars,
    entryVars,
    oauthVars>>

notSummaryVars == <<trendVars, extractVars, pearsonVars, corrVars, decimalVars, progressVars, handlerVars, createVars,
    entryVars,
    oauthVars>>

notEntryVars == <<trendVars, extractVars, pearsonVars, corrVars, decimalVars, progressVars, handlerVars, createVars, summaryVars,
    oauthVars>>

notOAuthVars == <<trendVars, extractVars, pearsonVars, corrVars, decimalVars, progressVars, handlerVars, createVars, summaryVars, entryVars>>

vars == <<pc, trendVars, extractVars, pearsonVars, corrVars, decimalVars,
    progressVars,
    handlerVars,
    createVars,
    summaryVars,
    entryVars,
    oauthVars>>

(***************************************************************************)
(* Bounds of the trend model.                                              *)
(***************************************************************************)
MaxRecords == 4
MaxTime == 2
ValueLo == 19
ValueHi == 22

(***************************************************************************)
(* Bounds of the normaliser, Pearson and correlation models.               *)
(***************************************************************************)
MaxFieldNum == 1
MaxLen == 4
MaxVal == 1
MaxDays == 4
MaxCorrValue == 2
MaxWindowDays == 5
MaxDecimalLen == 5

(***************************************************************************)
(* Bounds of the progress model.                                           *)
(***************************************************************************)
MaxProgressDays == 3
MaxGoalRecords == 3

(***************************************************************************)
(* Bound of the create model.                                              *)
(***************************************************************************)
MaxStoreRows == 2

(***************************************************************************)
(* Bound of the summary model.                                             *)
(***************************************************************************)
MaxSummaryRows == 2
MaxSummaryDay == 4

(***************************************************************************)
(* Bound of the entry model.                                               *)
(***************************************************************************)
MaxEntries == 2

(***************************************************************************)
(* JavaScript numbers: finite rationals n/d (d > 0), NaN and undefined.    *)
(***************************************************************************)
RECURSIVE GCD(_, _)
GCD(a, b) == IF b = 0 THEN a ELSE GCD(b, a % b)

Abs(a) == IF a < 0 THEN -a ELSE a

Num(n, d) ==
    LET g == GCD(Abs(n), d)
    IN  [k |-> "number", n |-> n \div g, d |-> d \div g]

JsInt(n) == [k |-> "number", n |-> n, d |-> 1]
NaN == [k |-> "NaN", n |-> 0, d |-> 1]
Undefined == [k |-> "undefined", n |-> 0, d |-> 1]
PosInfinity == [k |-> "Infinity", n |-> 1, d |-> 1]
NegInfinity == [k |-> "Infinity", n |-> -1, d |-> 1]

IsNumber(a) == a.k = "number"

\* item.value || 0 : undefined, NaN and 0 are falsy
OrZero(v) == IF IsNumber(v) /\ v.n # 0 THEN v ELSE JsInt(0)

\* a + b on numbers
JsAdd(a, b) ==
    IF IsNumber(a) /\ IsNumber(b)
    THEN Num(a.n * b.d + b.n * a.d, a.d * b.d)
    ELSE NaN

\* a - b on numbers
JsSub(a, b) ==
    IF IsNumber(a) /\ IsNumber(b)
    THEN Num(a.n * b.d - b.n * a.d, a.d * b.d)
    ELSE NaN

\* a * b on numbers: Infinity * 0 is NaN, Infinity * x is +-Infinity
JsMul(a, b) ==
    IF IsNumber(a) /\ IsNumber(b)
    THEN Num(a.n * b.n, a.d * b.d)
    ELSE IF a.k \in {"number", "Infinity"} /\ b.k \in {"number", "Infinity"}
         THEN IF a.n * b.n = 0 THEN NaN
              ELSE IF a.n * b.n > 0 THEN PosInfinity ELSE NegInfinity
         ELSE NaN

\* a / b on numbers: 0/0 is NaN, x/0 is +-Infinity
JsDiv(a, b) ==
    IF ~(IsNumber(a) /\ IsNumber(b)) THEN NaN
    ELSE IF b.n = 0
         THEN IF a.n = 0 THEN NaN
              ELSE IF a.n > 0 THEN PosInfinity ELSE NegInfinity
         ELSE IF b.n > 0 THEN Num(a.n * b.d, a.d * b.n)
              ELSE Num(-(a.n * b.d), a.d * (-b.n))

\* a > b ; every comparison with NaN is false
JsGT(a, b) == IsNumber(a) /\ IsNumber(b) /\ a.n * b.d > b.n * a.d

\* a < b
JsLT(a, b) == IsNumber(a) /\ IsNumber(b) /\ a.n * b.d < b.n * a.d

\* Math.round: nearest integer, halves towards +Infinity
MathRound(a) ==
    IF IsNumber(a) THEN JsInt((2 * a.n + a.d) \div (2 * a.d)) ELSE a

\* Math.round(v * 100) / 100
Round2(v) == JsDiv(MathRound(JsMul(v, JsInt(100))), JsInt(100))

(***************************************************************************)
(* Array helpers.                                                          *)
(***************************************************************************)
\* Array.prototype.slice(from, to), 0-based, to exclusive
Slice(s, from, to) ==
    IF to <= from THEN <<>> ELSE SubSeq(s, from + 1, to)

RECURSIVE InsertByCreatedAt(_, _)
InsertByCreatedAt(sorted, item) ==
    IF sorted = <<>> THEN <<item>>
    ELSE IF sorted[Len(sorted)].created_at <= item.created_at
         THEN Append(sorted, item)
         ELSE Append(InsertByCreatedAt(SubSeq(sorted, 1, Len(sorted) - 1), item),
                     sorted[Len(sorted)])

\* data.sort((a, b) => time(a.created_at) - time(b.created_at)) : stable
RECURSIVE SortByCreatedAt(_)
SortByCreatedAt(data) ==
    IF data = <<>> THEN <<>>
    ELSE InsertByCreatedAt(SortByCreatedAt(SubSeq(data, 1, Len(data) - 1)),
                           data[Len(data)])

\* half.reduce((sum, item) => sum + (item.value || 0), 0)
RECURSIVE SumValues(_)
SumValues(half) ==
    IF half = <<>> THEN JsInt(0)
    ELSE JsAdd(SumValues(SubSeq(half, 1, Len(half) - 1)),
               OrZero(half[Len(half)].value))

\* half.reduce(...) / half.length
HalfAverage(half) == JsDiv(SumValues(half), JsInt(Len(half)))

\* the split placed at ceil(n / 2) instead of floor(n / 2)
HalfIndexCeil(n) == (n + 1) \div 2

\* Math.floor(sortedData.length / 2)
HalfIndex(n) == n \div 2

FirstHalf(sortedData) == Slice(sortedData, 0, HalfIndex(Len(sortedData)))

SecondHalf(sortedData) ==
    Slice(sortedData, HalfIndex(Len(sortedData)), Len(sortedData))

\* firstAvg > 0 ? ((secondAvg - firstAvg) / firstAvg) * 100 : 0
PercentChange(firstAvg, secondAvg) ==
    IF JsGT(firstAvg, JsInt(0))
    THEN JsMul(JsDiv(JsSub(secondAvg, firstAvg), firstAvg), JsInt(100))
    ELSE JsInt(0)

\* the thresholds taken inclusively: change >= 5, change <= -5
ClassifyInclusive(change) ==
    IF ~JsLT(change, JsInt(5)) /\ IsNumber(change) THEN "increasing"
    ELSE IF ~JsGT(change, JsInt(-5)) /\ IsNumber(change) THEN "decreasing"
    ELSE "stable"

\* change > 5 ? 'increasing' : change < -5 ? 'decreasing' : 'stable'
Classify(change) ==
    IF JsGT(change, JsInt(5)) THEN "increasing"
    ELSE IF JsLT(change, JsInt(-5)) THEN "decreasing"
    ELSE "stable"

(***************************************************************************)
(* calculateTrends (analytics/route.ts) and calculateSimpleTrend           *)
(* (dashboard/route.ts).                                                   *)
(***************************************************************************)
calculateTrends(data) ==
    IF Len(data) = 0
    THEN [trend |-> "no_data", change |-> JsInt(0),
          firstPeriod |-> Undefined, secondPeriod |-> Undefined]
    ELSE LET sortedData == SortByCreatedAt(data)
             firstAvg == HalfAverage(FirstHalf(sortedData))
             secondAvg == HalfAverage(SecondHalf(sortedData))
             change == PercentChange(firstAvg, secondAvg)
         IN  [trend |-> Classify(change), change |-> Round2(change),
              firstPeriod |-> firstAvg, secondPeriod |-> secondAvg]

calculateSimpleTrend(data) ==
    IF Len(data) < 2 THEN "insufficient_data"
    ELSE LET sortedData == SortByCreatedAt(data)
             firstAvg == HalfAverage(FirstHalf(sortedData))
             secondAvg == HalfAverage(SecondHalf(sortedData))
             change == PercentChange(firstAvg, secondAvg)
         IN  Classify(change)

(***************************************************************************)
(* Payloads (the `data` column of a health_data row) and                   *)
(* extractNumericValue (part_001).  A payload is a bare value of some      *)
(* JavaScript type or an object literal; an object's field is absent       *)
(* (undefined) or holds a number or a string.                              *)
(***************************************************************************)
numericFields ==
    <<"value", "level", "duration", "quality", "severity", "systolic",
      "diastolic">>

FieldNames == {numericFields[i] : i \in 1..Len(numericFields)}

Null == [k |-> "null", n |-> 0, d |-> 1]
Str == [k |-> "string", n |-> 0, d |-> 1]

NoFields == [f \in FieldNames |-> Undefined]

\* a bare payload of JavaScript type `kind`
Bare(kind, num) == [kind |-> kind, num |-> num, fields |-> NoFields]

NumberPayload(v) == Bare("number", JsInt(v))
EmptyObject == Bare("object", Undefined)
AbsentPayload == Bare("undefined", Undefined)

\* typeof v === 'number'
TypeofNumber(v) == v.k \in {"number", "NaN", "Infinity"}

\* ToBoolean(v) for a field value: 0, NaN, undefined, null are falsy
Truthy(v) ==
    \/ v.k = "number" /\ v.n # 0
    \/ v.k = "Infinity"
    \/ v.k = "string"

\* ToBoolean(data) for a payload
TruthyPayload(data) ==
    CASE data.kind = "number" -> Truthy(data.num)
      [] data.kind \in {"object", "array"} -> TRUE
      [] data.kind = "string" -> TRUE
      [] data.kind = "boolean" -> data.num.n # 0
      [] OTHER -> FALSE

\* data[field] && typeof data[field] === 'number'
FieldQualifies(v) == Truthy(v) /\ TypeofNumber(v)

\* for (const field of numericFields) ... starting at index i
RECURSIVE ProbeFields(_, _)
ProbeFields(data, i) ==
    IF i > Len(numericFields) THEN Null
    ELSE IF FieldQualifies(data.fields[numericFields[i]])
         THEN data.fields[numericFields[i]]
         ELSE ProbeFields(data, i + 1)

extractNumericValue(data) ==
    IF data.kind = "number" THEN data.num
    ELSE IF data.kind \in {"object", "array"} THEN ProbeFields(data, 1)
    ELSE Null

(***************************************************************************)
(* calculatePearsonCorrelation (part_001) over integer-valued arrays.      *)
(* The coefficient numerator / sqrt(radicand) is carried exactly as its    *)
(* sign and its square p/q in lowest terms.                                *)
(***************************************************************************)
Sign(a) == IF a > 0 THEN 1 ELSE IF a < 0 THEN -1 ELSE 0

ZeroCoef == [k |-> "number", sgn |-> 0, p |-> 0, q |-> 1]
NaNCoef == [k |-> "NaN", sgn |-> 0, p |-> 0, q |-> 1]
NoCoef == [k |-> "undefined", sgn |-> 0, p |-> 0, q |-> 1]

\* numerator / Math.sqrt(radicand), radicand > 0
Coef(numerator, radicand) ==
    IF numerator = 0 THEN ZeroCoef
    ELSE LET g == GCD(numerator * numerator, radicand)
         IN  [k |-> "number", sgn |-> Sign(numerator),
              p |-> (numerator * numerator) \div g, q |-> radicand \div g]

\* x.reduce((a, b) => a + b, 0)
RECURSIVE Sum(_)
Sum(a) == IF a = <<>> THEN 0 ELSE Sum(SubSeq(a, 1, Len(a) - 1)) + a[Len(a)]

\* x.reduce((sum, xi, i) => sum + xi * y[i], 0)
RECURSIVE SumProducts(_, _)
SumProducts(a, b) ==
    IF a = <<>> THEN 0
    ELSE SumProducts(SubSeq(a, 1, Len(a) - 1), b) + a[Len(a)] * b[Len(a)]

\* the squares forgotten: sum + xi
SumSquaresLinear(a) == Sum(a)

\* x.reduce((sum, xi) => sum + xi * xi, 0)
SumSquares(a) == SumProducts(a, a)

\* the second factor of the radicand computed from x again
PearsonSecondFactorFromX(a, b) ==
    LET n == Len(a)
        sumX == Sum(a)
        sumY == Sum(b)
        sumXY == SumProducts(a, b)
        sumX2 == SumSquares(a)
        numerator == n * sumXY - sumX * sumY
        radicand == (n * sumX2 - sumX * sumX) * (n * sumX2 - sumX * sumX)
    IN  IF radicand < 0 THEN NaNCoef
        ELSE IF radicand = 0 THEN ZeroCoef
        ELSE Coef(numerator, radicand)

calculatePearsonCorrelation(a, b) ==
    LET n == Len(a)
        sumX == Sum(a)
        sumY == Sum(b)
        sumXY == SumProducts(a, b)
        sumX2 == SumSquares(a)
        sumY2 == SumSquares(b)
        numerator == n * sumXY - sumX * sumY
        radicand == (n * sumX2 - sumX * sumX) * (n * sumY2 - sumY * sumY)
    IN  IF radicand < 0 THEN NaNCoef
        ELSE IF radicand = 0 THEN ZeroCoef
        ELSE Coef(numerator, radicand)

\* Math.abs(c) > a / b for positive integers a, b
AbsGreater(c, a, b) == c.k = "number" /\ c.p * b * b > a * a * c.q

\* Math.round(c * 100) / 100
RoundCoef(c) ==
    IF c.k # "number" THEN NaN
    ELSE LET top == 100 * ((c.p \div c.q) + 1)
             up == CHOOSE m \in 0..top :
                       /\ (2 * m - 1 <= 0
                           \/ (2 * m - 1) * (2 * m - 1) * c.q <= 40000 * c.p)
                       /\ (2 * m + 1) * (2 * m + 1) * c.q > 40000 * c.p
             down == CHOOSE m \in 0..top :
                       /\ (2 * m + 1) * (2 * m + 1) * c.q >= 40000 * c.p
                       /\ (m = 0 \/ (2 * m - 1) * (2 * m - 1) * c.q
                                      < 40000 * c.p)
         IN  IF c.sgn >= 0 THEN Num(up, 100) ELSE Num(-down, 100)

(***************************************************************************)
(* IEEE-754 binary64 arithmetic, for series whose values are not integers. *)
(* A finite double is sgn * m * 2^e with m a natural number of exactly     *)
(* Precision bits (or 0), held as little-endian limbs of LimbBits bits.    *)
(* Every operation computes the exact result and rounds it to nearest,     *)
(* ties to even.  Exponent overflow and subnormals are not modelled: the   *)
(* magnitudes that occur lie between 2^-120 and 2^20.                      *)
(***************************************************************************)
LimbBase == 2 ^ 13
LimbBits == 13
Precision == 53

Limb(a, i) == IF i \in 1..Len(a) THEN a[i] ELSE 0

Longer(a, b) == IF Len(a) > Len(b) THEN Len(a) ELSE Len(b)

\* carry propagation through a sequence of non-negative coefficients
RECURSIVE BigCarry(_, _)
BigCarry(c, carry) ==
    IF c = <<>>
    THEN IF carry = 0 THEN <<>>
         ELSE <<carry % LimbBase>> \o BigCarry(<<>>, carry \div LimbBase)
    ELSE <<(c[1] + carry) % LimbBase>>
         \o BigCarry(Tail(c), (c[1] + carry) \div LimbBase)

\* drop the most significant zero limbs
RECURSIVE BigTrim(_)
BigTrim(a) ==
    IF a # <<>> /\ a[Len(a)] = 0 THEN BigTrim(SubSeq(a, 1, Len(a) - 1))
    ELSE a

BigNorm(c) == BigTrim(BigCarry(c, 0))

BigAdd(a, b) == BigNorm([i \in 1..Longer(a, b) |-> Limb(a, i) + Limb(b, i)])

\* coefficient k of the product: sum of a[i] * b[k + 1 - i]
RECURSIVE BigConv(_, _, _, _)
BigConv(a, b, k, i) ==
    IF i > Len(a) THEN 0
    ELSE a[i] * Limb(b, k + 1 - i) + BigConv(a, b, k, i + 1)

BigMul(a, b) ==
    IF a = <<>> \/ b = <<>> THEN <<>>
    ELSE BigNorm([k \in 1..(Len(a) + Len(b) - 1) |-> BigConv(a, b, k, 1)])

RECURSIVE BigCmpAt(_, _, _)
BigCmpAt(a, b, i) ==
    IF i = 0 THEN 0
    ELSE IF a[i] > b[i] THEN 1
    ELSE IF a[i] < b[i] THEN -1
    ELSE BigCmpAt(a, b, i - 1)

\* -1, 0, 1 as a < b, a = b, a > b
BigCmp(a, b) ==
    IF Len(a) > Len(b) THEN 1
    ELSE IF Len(a) < Len(b) THEN -1
    ELSE BigCmpAt(a, b, Len(a))

RECURSIVE BigBorrow(_, _, _, _)
BigBorrow(a, b, i, borrow) ==
    IF i > Len(a) THEN <<>>
    ELSE LET t == a[i] - Limb(b, i) - borrow
         IN  IF t < 0 THEN <<t + LimbBase>> \o BigBorrow(a, b, i + 1, 1)
             ELSE <<t>> \o BigBorrow(a, b, i + 1, 0)

\* a - b for a >= b
BigSub(a, b) == BigTrim(BigBorrow(a, b, 1, 0))

SmallBitLen(n) ==
    CHOOSE k \in 0..LimbBits : 2 ^ k > n /\ (k = 0 \/ 2 ^ (k - 1) <= n)

BigBitLen(a) ==
    IF a = <<>> THEN 0
    ELSE LimbBits * (Len(a) - 1) + SmallBitLen(a[Len(a)])

BigPow2(s) ==
    [i \in 1..((s \div LimbBits) + 1) |->
        IF i = (s \div LimbBits) + 1 THEN 2 ^ (s % LimbBits) ELSE 0]

\* a * 2^s
BigShl(a, s) == BigMul(a, BigPow2(s))

\* floor(a / 2^s)
BigShr(a, s) ==
    LET w == s \div LimbBits
        b == s % LimbBits
    IN  BigTrim([i \in 1..(Len(a) - w) |->
            (Limb(a, i + w) \div (2 ^ b))
            + (Limb(a, i + w + 1) % (2 ^ b)) * (2 ^ (LimbBits - b))])

\* quotient and remainder of a by a small divisor
RECURSIVE BigDivRem(_, _)
BigDivRem(a, d) ==
    IF a = <<>> THEN [q |-> <<>>, r |-> 0]
    ELSE LET hi == BigDivRem(Tail(a), d)
             t == hi.r * LimbBase + a[1]
         IN  [q |-> <<t \div d>> \o hi.q, r |-> t % d]

BigFromInt(n) == BigNorm(<<n>>)

BigIsOdd(a) == a # <<>> /\ a[1] % 2 = 1

F64(sgn, m, e) == [k |-> "number", sgn |-> sgn, m |-> m, e |-> e]
F64Zero == F64(1, <<>>, 0)
F64NaN == [k |-> "NaN", sgn |-> 1, m |-> <<>>, e |-> 0]

F64IsZero(a) == a.k = "number" /\ a.m = <<>>

\* the double nearest to sgn * (N + sticky) * 2^e, ties to even, where
\* sticky stands for a non-zero amount below one unit of N
F64Round(sgn, N, e, sticky) ==
    IF N = <<>> THEN F64Zero
    ELSE LET L == BigBitLen(N)
         IN  IF L <= Precision
             THEN F64(sgn, BigShl(N, Precision - L), e - (Precision - L))
             ELSE LET s == L - Precision
                      q == BigShr(N, s)
                      r == BigSub(N, BigShl(q, s))
                      c == BigCmp(r, BigPow2(s - 1))
                      up == c > 0 \/ (c = 0 /\ (sticky \/ BigIsOdd(q)))
                      q1 == IF up THEN BigAdd(q, <<1>>) ELSE q
                  IN  IF BigBitLen(q1) > Precision
                      THEN F64(sgn, BigShr(q1, 1), e + s + 1)
                      ELSE F64(sgn, q1, e + s)

\* a + b
F64Add(a, b) ==
    IF a.k # "number" \/ b.k # "number" THEN F64NaN
    ELSE IF F64IsZero(a) THEN b
    ELSE IF F64IsZero(b) THEN a
    ELSE LET emin == IF a.e < b.e THEN a.e ELSE b.e
             A == BigShl(a.m, a.e - emin)
             B == BigShl(b.m, b.e - emin)
             c == BigCmp(A, B)
         IN  IF a.sgn = b.sgn THEN F64Round(a.sgn, BigAdd(A, B), emin, FALSE)
             ELSE IF c = 0 THEN F64Zero
             ELSE IF c > 0 THEN F64Round(a.sgn, BigSub(A, B), emin, FALSE)
             ELSE F64Round(b.sgn, BigSub(B, A), emin, FALSE)

\* a - b
F64Sub(a, b) == F64Add(a, [b EXCEPT !.sgn = -b.sgn])

\* a * b
F64Mul(a, b) ==
    IF a.k # "number" \/ b.k # "number" THEN F64NaN
    ELSE IF F64IsZero(a) \/ F64IsZero(b) THEN F64Zero
    ELSE F64Round(a.sgn * b.sgn, BigMul(a.m, b.m), a.e + b.e, FALSE)

\* the double of a non-negative integer
F64FromInt(n) == F64Round(1, BigFromInt(n), 0, FALSE)

\* the double denoted by the decimal literal t/10 (t = 7 is 0.7)
F64FromTenths(t) ==
    LET d == BigDivRem(BigShl(BigFromInt(t), 60), 10)
    IN  F64Round(1, BigTrim(d.q), -60, d.r # 0)

\* x.reduce((a, b) => a + b, 0) in doubles
RECURSIVE F64Sum(_)
F64Sum(a) ==
    IF a = <<>> THEN F64Zero
    ELSE F64Add(F64Sum(SubSeq(a, 1, Len(a) - 1)), a[Len(a)])

\* x.reduce((sum, xi, i) => sum + xi * y[i], 0) in doubles
RECURSIVE F64SumProducts(_, _)
F64SumProducts(a, b) ==
    IF a = <<>> THEN F64Zero
    ELSE F64Add(F64SumProducts(SubSeq(a, 1, Len(a) - 1), b),
                F64Mul(a[Len(a)], b[Len(a)]))

\* calculatePearsonCorrelation on arrays of doubles.  The value returned is
\* carried as its kind and sign together with the numerator and the
\* radicand it is the quotient of: NaN when the radicand is negative, 0
\* when the radicand or the numerator is 0.
calculatePearsonCorrelationF64(a, b) ==
    LET n == F64FromInt(Len(a))
        sumX == F64Sum(a)
        sumY == F64Sum(b)
        sumXY == F64SumProducts(a, b)
        sumX2 == F64SumProducts(a, a)
        sumY2 == F64SumProducts(b, b)
        numerator == F64Sub(F64Mul(n, sumXY), F64Mul(sumX, sumY))
        radicand == F64Mul(F64Sub(F64Mul(n, sumX2), F64Mul(sumX, sumX)),
                           F64Sub(F64Mul(n, sumY2), F64Mul(sumY, sumY)))
    IN  IF F64IsZero(radicand)
        THEN [k |-> "number", sgn |-> 0, numerator |-> numerator,
              radicand |-> radicand]
        ELSE IF radicand.sgn < 0
        THEN [k |-> "NaN", sgn |-> 0, numerator |-> numerator,
              radicand |-> radicand]
        ELSE [k |-> "number",
              sgn |-> IF F64IsZero(numerator) THEN 0 ELSE numerator.sgn,
              numerator |-> numerator, radicand |-> radicand]

(***************************************************************************)
(* groupDataByDate and calculateCorrelations (part_001).  dailyData is an  *)
(* object keyed by date; its keys and each day's keys keep insertion       *)
(* order.                                                                  *)
(***************************************************************************)
DataTypes == {"sleep", "stress", "mood"}

\* entry.date.split('T')[0] on a date given as [day, time]
DateKey(date) == date.day

DayIndex(dailyData, dateKey) ==
    IF \E i \in 1..Len(dailyData) : dailyData[i].date = dateKey
    THEN CHOOSE i \in 1..Len(dailyData) : dailyData[i].date = dateKey
    ELSE 0

HasKey(day, type) == \E i \in 1..Len(day.keys) : day.keys[i] = type

\* dailyData[dateKey][entry.data_type] = entry.data
PutEntry(day, entry) ==
    [date |-> day.date,
     keys |-> IF HasKey(day, entry.data_type) THEN day.keys
              ELSE Append(day.keys, entry.data_type),
     data |-> [day.data EXCEPT ![entry.data_type] = entry.data]]

NewDay(dateKey) ==
    [date |-> dateKey, keys |-> <<>>,
     data |-> [t \in DataTypes |-> AbsentPayload]]

RECURSIVE groupDataByDate(_)
groupDataByDate(rows) ==
    IF rows = <<>> THEN <<>>
    ELSE LET dailyData == groupDataByDate(SubSeq(rows, 1, Len(rows) - 1))
             entry == rows[Len(rows)]
             dateKey == DateKey(entry.date)
             i == DayIndex(dailyData, dateKey)
         IN  IF i = 0 THEN Append(dailyData, PutEntry(NewDay(dateKey), entry))
             ELSE [dailyData EXCEPT ![i] = PutEntry(dailyData[i], entry)]

\* Object.keys(dailyData[Object.keys(dailyData)[0]] || {})
FirstDayTypes(dailyData) ==
    IF dailyData = <<>> THEN <<>> ELSE dailyData[1].keys

\* the forEach over Object.values(dailyData) for one pair: the list of
\* <<val1, val2>> pushed onto values1 / values2
RECURSIVE PairedValues(_, _, _)
PairedValues(dailyData, type1, type2) ==
    IF dailyData = <<>> THEN <<>>
    ELSE LET rest == PairedValues(SubSeq(dailyData, 1, Len(dailyData) - 1),
                                  type1, type2)
             day == dailyData[Len(dailyData)]
             val1 == extractNumericValue(day.data[type1])
             val2 == extractNumericValue(day.data[type2])
         IN  IF /\ TruthyPayload(day.data[type1])
                /\ TruthyPayload(day.data[type2])
                /\ val1 # Null /\ val2 # Null
             THEN Append(rest, <<val1.n, val2.n>>)
             ELSE rest

Column(pairs, c) == [i \in 1..Len(pairs) |-> pairs[i][c]]

\* the sample floor lowered to 3 days
EnoughSamplesThree(n) == n > 2

\* values1.length > 3
EnoughSamples(n) == n > 3

\* Math.abs(correlation) > 0.3
Significant(c) == AbsGreater(c, 3, 10)

\* the entries pushed for one pair (none or one)
PairEntry(dailyData, type1, type2) ==
    LET pairs == PairedValues(dailyData, type1, type2)
        values1 == Column(pairs, 1)
        values2 == Column(pairs, 2)
        correlation == calculatePearsonCorrelation(values1, values2)
    IN  IF EnoughSamples(Len(values1)) /\ Significant(correlation)
        THEN <<[type1 |-> type1, type2 |-> type2,
                correlation |-> RoundCoef(correlation),
                strength |-> IF AbsGreater(correlation, 7, 10) THEN "strong"
                             ELSE "moderate",
                direction |-> IF correlation.sgn > 0 THEN "positive"
                              ELSE "negative",
                dataPoints |-> Len(values1)]>>
        ELSE <<>>

\* the two nested loops from (i, j), 1-based, in loop order
RECURSIVE PairLoop(_, _, _, _)
PairLoop(dailyData, dataTypes, i, j) ==
    IF i > Len(dataTypes) THEN <<>>
    ELSE IF j > Len(dataTypes)
         THEN PairLoop(dailyData, dataTypes, i + 1, i + 2)
         ELSE PairEntry(dailyData, dataTypes[i], dataTypes[j])
              \o PairLoop(dailyData, dataTypes, i, j + 1)

\* Math.abs(a.correlation) as a number of hundredths
AbsHundredths(e) == Abs(e.correlation.n * (100 \div e.correlation.d))

\* the list left in loop order
AppendUnsorted(sorted, e) == Append(sorted, e)

RECURSIVE InsertByAbsCorrelation(_, _)
InsertByAbsCorrelation(sorted, e) ==
    IF sorted = <<>> THEN <<e>>
    ELSE IF AbsHundredths(sorted[Len(sorted)]) >= AbsHundredths(e)
         THEN Append(sorted, e)
         ELSE Append(InsertByAbsCorrelation(
                         SubSeq(sorted, 1, Len(sorted) - 1), e),
                     sorted[Len(sorted)])

\* correlations.sort((a, b) => |b.correlation| - |a.correlation|) : stable
RECURSIVE SortByAbsCorrelation(_)
SortByAbsCorrelation(list) ==
    IF list = <<>> THEN <<>>
    ELSE InsertByAbsCorrelation(
             SortByAbsCorrelation(SubSeq(list, 1, Len(list) - 1)),
             list[Len(list)])

calculateCorrelations(dailyData) ==
    SortByAbsCorrelation(
        PairLoop(dailyData, FirstDayTypes(dailyData), 1, 2))

(***************************************************************************)
(* calculateGoalProgress (part_001).  A date is [day, time]: a calendar    *)
(* day and the milliseconds elapsed within it.                             *)
(***************************************************************************)
MsPerDay == 1000 * 60 * 60 * 24

\* new Date(date).getTime()
GetTime(date) == date.day * MsPerDay + date.time

\* Math.ceil
MathCeil(a) ==
    IF IsNumber(a) THEN JsInt(0 - ((0 - a.n) \div a.d)) ELSE a

\* Math.min(a, b)
MathMin(a, b) ==
    IF a.k = "NaN" \/ b.k = "NaN" THEN NaN
    ELSE IF a.k = "Infinity" THEN (IF a.n > 0 THEN b ELSE a)
    ELSE IF b.k = "Infinity" THEN (IF b.n > 0 THEN a ELSE b)
    ELSE IF JsLT(b, a) THEN b ELSE a

\* Math.max(a, b)
MathMax(a, b) ==
    IF a.k = "NaN" \/ b.k = "NaN" THEN NaN
    ELSE IF a.k = "Infinity" THEN (IF a.n > 0 THEN a ELSE b)
    ELSE IF b.k = "Infinity" THEN (IF b.n > 0 THEN b ELSE a)
    ELSE IF JsGT(b, a) THEN b ELSE a

\* new Set(healthData.map(d => d.date.split('T')[0]))
DataDaySet(rows) == {DateKey(rows[i].date) : i \in 1..Len(rows)}

\* Math.ceil((new Date().getTime() - new Date(goal.start_date).getTime())
\*           / (1000 * 60 * 60 * 24))
TotalDays(g, clock) ==
    MathCeil(JsDiv(JsInt(GetTime(clock) - GetTime(g.start_date)),
                   JsInt(MsPerDay)))

calculateGoalProgress(g, rows, clock) ==
    LET totalDays == TotalDays(g, clock)
        dataDays == JsInt(Cardinality(DataDaySet(rows)))
        ratio == JsMul(JsDiv(dataDays, totalDays), JsInt(100))
    IN  [completionPercentage |-> MathMin(ratio, JsInt(100)),
         dataConsistency |-> ratio,
         totalEntries |-> JsInt(Len(rows)),
         averageEntriesPerDay |->
             JsDiv(JsInt(Len(rows)), MathMax(totalDays, JsInt(1)))]

(***************************************************************************)
(* The narrative summarizer (openai.chat.completions.create) and the       *)
(* generators built on it.  A reply either throws, carries no choice,      *)
(* carries a null content, or carries a content text.                      *)
(***************************************************************************)
JsonTexts == {"{}", "[]", "{\"summary\":\"ok\"}", "[{\"title\":\"walk\"}]"}
ProseTexts == {"Here are your insights", "I cannot help with that"}

Reply(kind, text) == [kind |-> kind, text |-> text]

Replies ==
    {Reply("throws", ""), Reply("noChoice", ""), Reply("nullContent", "")}
    \cup {Reply("content", t) : t \in JsonTexts \cup ProseTexts}

\* JSON.parse(text) returns (TRUE) or throws a SyntaxError (FALSE)
JsonParses(text) == text \in JsonTexts

Body(kind, text) == [kind |-> kind, text |-> text]

\* the value JSON.parse(text) returns
Parsed(text) == Body("parsed", text)

\* part_000 generateAIInsights: completion.choices[0]?.message?.content
\* || '{}', JSON.parse inside the one try block
generateAIInsightsGET(reply) ==
    IF reply.kind = "throws" THEN Body("fallback", "")
    ELSE LET content == IF reply.kind = "content" THEN reply.text ELSE "{}"
         IN  IF JsonParses(content) THEN Parsed(content)
             ELSE Body("fallback", "")

\* part_000 generateRecommendations: same shape, default '[]'
generateRecommendationsGET(reply) ==
    IF reply.kind = "throws" THEN Body("fallback", "")
    ELSE LET content == IF reply.kind = "content" THEN reply.text ELSE "[]"
         IN  IF JsonParses(content) THEN Parsed(content)
             ELSE Body("fallback", "")

\* insights/route.ts generateAIInsights: completion.choices[0].message
\* throws a TypeError without a choice; the inner catch answers an
\* unparseable content with an object whose description is that content
generateAIInsights(reply) ==
    IF reply.kind \in {"throws", "noChoice"} THEN Body("fallback", "")
    ELSE IF reply.kind = "nullContent" THEN Parsed("{}")
    ELSE IF JsonParses(reply.text) THEN Parsed(reply.text)
    ELSE Body("parseFallback", reply.text)

\* insights/route.ts generateRecommendations: both fallbacks are literals
generateRecommendations(reply) ==
    IF reply.kind \in {"throws", "noChoice"} THEN Body("fallback", "")
    ELSE IF reply.kind = "nullContent" THEN Parsed("[]")
    ELSE IF JsonParses(reply.text) THEN Parsed(reply.text)
    ELSE Body("parseFallback", "")

(***************************************************************************)
(* The analytics, dashboard and insights handlers.  A handler returns its  *)
(* response together with the effects it had, in order: "query" for a      *)
(* store query, "compute" for an analytics computation, "summarizer" for a *)
(* call of the summarizer.                                                 *)
(***************************************************************************)
Outcome(status, body, eff) ==
    [status |-> status, body |-> body, effects |-> eff]

Error(status, message, eff) == Outcome(status, Body("error", message), eff)

Success(eff) == Outcome(200, Body("success", ""), eff)

\* the guard with the test left out
UserIdNeverMissing(req) == FALSE

\* if (!userId)
UserIdMissing(req) == ~req.hasUserId

\* analytics/route.ts GET with getTrends, getCorrelations, getSummary
AnalyticsGET(req, e) ==
    IF ~e.configured THEN Error(500, "Supabase not configured", <<>>)
    ELSE IF UserIdMissing(req) THEN Error(400, "userId is required", <<>>)
    ELSE IF e.dataError
         THEN Error(500, "Failed to fetch health data", <<"query">>)
         ELSE Success(<<"query", "compute">>)

\* part_001 GET trends
TrendsGET(req, e) ==
    IF UserIdMissing(req) THEN Error(400, "userId is required", <<>>)
    ELSE IF e.dataError
         THEN Error(500, "Failed to fetch trend data", <<"query">>)
         ELSE Success(<<"query", "compute">>)

\* part_001 GET correlations
CorrelationsGET(req, e) ==
    IF UserIdMissing(req) THEN Error(400, "userId is required", <<>>)
    ELSE IF e.dataError
         THEN Error(500, "Failed to fetch correlation data", <<"query">>)
         ELSE Success(<<"query", "compute">>)

\* part_001 GET progress: a goal whose rows cannot be fetched is dropped
ProgressGET(req, e) ==
    IF UserIdMissing(req) THEN Error(400, "userId is required", <<>>)
    ELSE IF e.goalsError
         THEN Error(500, "Failed to fetch goals", <<"query">>)
         ELSE IF ~e.goalFound THEN Success(<<"query">>)
         ELSE IF e.dataError THEN Success(<<"query", "query">>)
         ELSE Success(<<"query", "query", "compute">>)

\* dashboard/route.ts GET with getDashboardOverview, getDashboardSummary
DashboardGET(req, e) ==
    IF UserIdMissing(req) THEN Error(400, "userId is required", <<>>)
    ELSE IF e.goalsError
         THEN Error(500, "Failed to fetch health goals", <<"query">>)
         ELSE IF e.dataError
              THEN Error(500, "Failed to fetch health data",
                         <<"query", "query">>)
              ELSE Success(<<"query", "query", "compute">>)

\* part_002 GET dashboard: user, goals, recent rows, two counts, summary
UserDashboardGET(req, e) ==
    IF UserIdMissing(req) THEN Error(400, "userId is required", <<>>)
    ELSE IF e.userError THEN Error(404, "User not found", <<"query">>)
    ELSE IF e.goalsError
         THEN Error(500, "Failed to fetch goals", <<"query", "query">>)
         ELSE IF e.dataError
              THEN Error(500, "Failed to fetch recent data",
                         <<"query", "query", "query">>)
              ELSE Success(<<"query", "query", "query", "query", "query",
                             "query", "compute">>)

\* part_002 GET dashboard summary
DashboardSummaryGET(req, e) ==
    IF UserIdMissing(req) THEN Error(400, "userId is required", <<>>)
    ELSE IF e.dataError
         THEN Error(500, "Failed to fetch summary data", <<"query">>)
         ELSE Success(<<"query", "compute">>)

\* getHealthData and getGoal of part_000: getGoal queries only for a goalId
FetchForInsightsGET(req) ==
    IF req.hasGoalId THEN <<"query", "query">> ELSE <<"query">>

\* the goal getGoal returns is null on a store error or without a match
GoalMissing(e) == e.goalsError \/ ~e.goalFound

\* part_000 generateInsights
generateInsights(req, e) ==
    IF req.hasGoalId /\ GoalMissing(e)
    THEN Error(404, "Health goal not found", FetchForInsightsGET(req))
    ELSE Outcome(200, generateAIInsightsGET(e.reply),
                 FetchForInsightsGET(req) \o <<"compute", "summarizer">>)

\* part_000 getRecommendations
getRecommendations(req, e) ==
    Outcome(200, generateRecommendationsGET(e.reply),
            FetchForInsightsGET(req) \o <<"compute", "summarizer">>)

\* part_000 GET insights
InsightsGET(req, e) ==
    IF UserIdMissing(req) THEN Error(400, "userId is required", <<>>)
    ELSE IF req.endpoint = "recommendations" THEN getRecommendations(req, e)
    ELSE generateInsights(req, e)

\* part_000 POST insights: request.json() throws on a malformed body
InsightsPOST(req, e) ==
    IF ~req.bodyParses THEN Error(500, "Failed to generate insights", <<>>)
    ELSE IF UserIdMissing(req) THEN Error(400, "userId is required", <<>>)
    ELSE generateInsights(req, e)

\* insights/route.ts POST generate: getGoal always queries the store
GeneratePOST(req, e) ==
    IF ~req.bodyParses THEN Error(500, "Internal server error", <<>>)
    ELSE IF UserIdMissing(req) THEN Error(400, "userId is required", <<>>)
    ELSE IF req.hasGoalId /\ GoalMissing(e)
         THEN Error(404, "Health goal not found", <<"query", "query">>)
         ELSE Outcome(200, generateAIInsights(e.reply),
                      <<"query", "query", "compute", "summarizer">>)

\* insights/route.ts GET daily
DailyGET(req, e) ==
    IF UserIdMissing(req) THEN Error(400, "userId is required", <<>>)
    ELSE IF e.goalsError
         THEN Error(500, "Failed to fetch goals", <<"query", "query">>)
         ELSE Success(<<"query", "query", "compute">>)

\* insights/route.ts GET recommendations
RecommendationsGET(req, e) ==
    IF UserIdMissing(req) THEN Error(400, "userId is required", <<>>)
    ELSE Outcome(200, generateRecommendations(e.reply),
                 <<"query", "query", "compute", "summarizer">>)

(***************************************************************************)
(* The two POST handlers of the data endpoint (data/route.ts, part_003).   *)
(* A body field is absent or holds a text.                                 *)
(***************************************************************************)
NoField == [present |-> FALSE, text |-> ""]
Text(t) == [present |-> TRUE, text |-> t]

\* ToBoolean of a field: undefined and '' are falsy
FieldTruthy(f) == f.present /\ f.text # ""

validDataTypes ==
    {"sleep", "stress", "nutrition", "exercise", "headache", "weather",
     "blood_pressure", "mood", "hydration", "medication", "symptoms",
     "vitals", "custom"}

\* new Date().toISOString()
NowISO == "2024-02-01T12:00:00.000Z"

\* the texts new Date(text) turns into a valid date, with their
\* toISOString(); any other text gives an Invalid Date
IsoOf ==
    [t \in {"2024-01-15", "2024-01-15T00:00:00.000Z"} |->
        "2024-01-15T00:00:00.000Z"]

DateParses(text) == text \in DOMAIN IsoOf

\* new Date(text).toISOString(): a RangeError for an Invalid Date
ToISOString(text) ==
    IF DateParses(text) THEN [throws |-> FALSE, text |-> IsoOf[text]]
    ELSE [throws |-> TRUE, text |-> ""]

Row(dataType, date) == [data_type |-> dataType, date |-> date]

Inserted(status, store) == [status |-> status, store |-> store]

\* supabase.from('health_data').insert(row): the store takes the row or
\* answers with an error
Insert(store, row, e) ==
    IF e.insertError THEN Inserted(500, store)
    ELSE Inserted(200, Append(store, row))

\* data/route.ts POST
PostData(body, e, store) ==
    IF ~body.parses THEN Inserted(500, store)
    ELSE IF ~body.hasUserId \/ ~FieldTruthy(body.dataType) \/ ~body.hasData
         THEN Inserted(400, store)
    ELSE IF body.dataType.text \notin validDataTypes
         THEN Inserted(400, store)
    ELSE IF ~FieldTruthy(body.timestamp)
         THEN Insert(store, Row(body.dataType.text, NowISO), e)
    ELSE IF ToISOString(body.timestamp.text).throws
         THEN Inserted(500, store)
    ELSE Insert(store, Row(body.dataType.text,
                           ToISOString(body.timestamp.text).text), e)

\* part_003 POST: date: timestamp || new Date().toISOString()
PostLog(body, e, store) ==
    IF ~e.configured THEN Inserted(500, store)
    ELSE IF ~body.parses THEN Inserted(500, store)
    ELSE IF ~body.hasUserId \/ ~FieldTruthy(body.dataType) \/ ~body.hasData
         THEN Inserted(400, store)
    ELSE Insert(store,
                Row(body.dataType.text,
                    IF FieldTruthy(body.timestamp) THEN body.timestamp.text
                    ELSE NowISO), e)

(***************************************************************************)
(* The summary functions: calculateSummary (analytics/route.ts),           *)
(* prepareDataSummary (part_000) and calculateAverageValue (part_001).  A  *)
(* row carries its data_type, created_at, the value column, the data       *)
(* column and the <data_type>_data column (wrapper).                       *)
(***************************************************************************)
\* rows.filter(item => item.data_type === type)
RowsOfType(rows, type) ==
    SelectSeq(rows, LAMBDA item : item.data_type = type)

\* [...new Set(rows.map(item => item.data_type))], in order of first
\* occurrence
RECURSIVE UniqueTypes(_)
UniqueTypes(rows) ==
    IF rows = <<>> THEN <<>>
    ELSE LET before == UniqueTypes(SubSeq(rows, 1, Len(rows) - 1))
             type == rows[Len(rows)].data_type
         IN  IF \E i \in 1..Len(before) : before[i] = type THEN before
             ELSE Append(before, type)

\* values.reduce((sum, val) => sum + val, 0)
RECURSIVE SumNumbers(_)
SumNumbers(values) ==
    IF values = <<>> THEN JsInt(0)
    ELSE JsAdd(SumNumbers(SubSeq(values, 1, Len(values) - 1)),
               values[Len(values)])

\* values.length > 0 ? sum / values.length : 0
MeanOrZero(values) ==
    IF Len(values) > 0 THEN JsDiv(SumNumbers(values), JsInt(Len(values)))
    ELSE JsInt(0)

\* part_000 prepareDataSummary: per type, the values that are neither null
\* nor undefined
TypeSummary(typeData) ==
    LET all == [i \in 1..Len(typeData) |-> typeData[i].value]
        values == SelectSeq(all, LAMBDA val :
                                     val.k \notin {"null", "undefined"})
    IN  [count |-> Len(typeData),
         average |-> MeanOrZero(values),
         latest |-> IF Len(typeData) > 0 THEN typeData[1].value ELSE Null]

prepareDataSummary(rows) ==
    LET dataTypes == UniqueTypes(rows)
    IN  [totalEntries |-> Len(rows),
         dataTypes |-> Len(dataTypes),
         dateRange |->
             [start |-> IF Len(rows) > 0
                        THEN JsInt(rows[Len(rows)].created_at) ELSE Null,
              end |-> IF Len(rows) > 0
                      THEN JsInt(rows[1].created_at) ELSE Null],
         byType |-> [type \in {dataTypes[i] : i \in 1..Len(dataTypes)} |->
                        TypeSummary(RowsOfType(rows, type))]]

\* A created_at of k is midnight (UTC) of the k-th day counted from Monday
\* 2024-01-15.  new Date(created_at).toString() is then
\* "<day name> Jan <day of month> 2024 00:00:00 GMT+0000 ..."; the code units
\* up to the day of month are kept, the rest is the same for every row.
DayNameCodes ==
    << <<77, 111, 110>>, <<84, 117, 101>>, <<87, 101, 100>>,
       <<84, 104, 117>>, <<70, 114, 105>>, <<83, 97, 116>>,
       <<83, 117, 110>> >>

DateToString(created_at) ==
    LET dayOfMonth == 14 + created_at
    IN  DayNameCodes[((created_at - 1) % 7) + 1]
        \o <<32, 74, 97, 110, 32>>
        \o <<48 + (dayOfMonth \div 10), 48 + (dayOfMonth % 10)>>

\* a < b in the order of UTF-16 code units
RECURSIVE StringLess(_, _)
StringLess(a, b) ==
    IF b = <<>> THEN FALSE
    ELSE IF a = <<>> THEN TRUE
    ELSE IF Head(a) # Head(b) THEN Head(a) < Head(b)
    ELSE StringLess(Tail(a), Tail(b))

\* Array.prototype.sort() without a comparator: ascending by the elements'
\* strings, equal strings keep their order
RECURSIVE InsertByString(_, _)
InsertByString(sorted, date) ==
    IF sorted = <<>> THEN <<date>>
    ELSE IF StringLess(DateToString(date),
                       DateToString(sorted[Len(sorted)]))
         THEN Append(InsertByString(SubSeq(sorted, 1, Len(sorted) - 1),
                                    date),
                     sorted[Len(sorted)])
         ELSE Append(sorted, date)

RECURSIVE DefaultSort(_)
DefaultSort(dates) ==
    IF dates = <<>> THEN <<>>
    ELSE InsertByString(DefaultSort(SubSeq(dates, 1, Len(dates) - 1)),
                        dates[Len(dates)])

\* analytics/route.ts calculateSummary: totalEntries, dataTypes,
\* averageValue over data.map(item => item.value || 0).filter(!isNaN), and
\* dateRange from the first and last of the sorted dates
calculateSummary(rows) ==
    IF Len(rows) = 0
    THEN [totalEntries |-> 0, dataTypes |-> <<>>, averageValue |-> JsInt(0),
          dateRange |-> [start |-> Null, end |-> Null]]
    ELSE LET all == [i \in 1..Len(rows) |-> OrZero(rows[i].value)]
             values == SelectSeq(all, LAMBDA val : val.k # "NaN")
             dates == DefaultSort([i \in 1..Len(rows) |->
                                      rows[i].created_at])
         IN  [totalEntries |-> Len(rows),
              dataTypes |-> UniqueTypes(rows),
              averageValue |-> MeanOrZero(values),
              dateRange |-> [start |-> JsInt(dates[1]),
                             end |-> JsInt(dates[Len(dates)])]]

\* entry.data || entry[`${entry.data_type}_data`]
DataOrWrapper(entry) ==
    IF TruthyPayload(entry.data) THEN entry.data ELSE entry.wrapper

\* part_001 calculateAverageValue
calculateAverageValue(entries) ==
    IF Len(entries) = 0 THEN JsInt(0)
    ELSE LET all == [i \in 1..Len(entries) |->
                        extractNumericValue(DataOrWrapper(entries[i]))]
             values == SelectSeq(all, LAMBDA val : val # Null)
         IN  IF Len(values) = 0 THEN JsInt(0)
             ELSE JsDiv(SumNumbers(values), JsInt(Len(values)))

(***************************************************************************)
(* The number each analysis reads from one row.  A row carries its date,   *)
(* data_type, the value column, the data column and the <data_type>_data   *)
(* column (wrapper).                                                       *)
(***************************************************************************)
\* part_001 calculateAverageValue: entry.data || entry[<type>_data], then
\* extractNumericValue
AverageOperand(entry) == extractNumericValue(DataOrWrapper(entry))

\* part_001 groupDataByDate keeps entry.data under the day and type;
\* calculateCorrelations reads it when it is truthy
CorrelationOperand(entry) ==
    LET day == groupDataByDate(<<entry>>)[1]
    IN  IF TruthyPayload(day.data[entry.data_type])
        THEN extractNumericValue(day.data[entry.data_type])
        ELSE Null

\* analytics/route.ts calculateTrends: item.value || 0
TrendOperand(entry) == OrZero(entry.value)

\* analytics/route.ts calculateSummary: item.value || 0, kept unless NaN
SummaryOperand(entry) ==
    IF OrZero(entry.value).k = "NaN" THEN Null ELSE OrZero(entry.value)

Operands(entry) ==
    [average |-> AverageOperand(entry),
     correlation |-> CorrelationOperand(entry),
     trend |-> TrendOperand(entry),
     summary |-> SummaryOperand(entry)]

(***************************************************************************)
(* The OAuth callback handlers.  A handler is named by the file (and the   *)
(* line of its declaration where a file holds several).  The token         *)
(* endpoint, the EHR and the store are outside the program: what they      *)
(* answer is chosen by the specification.                                  *)
(***************************************************************************)
EpicRoute == "app/api/epic/oauth/callback/route.ts"
Part006 == "part_006"
Part007 == "part_007:44"
Part007Token == "part_007:184"
Part004 == "part_004"
Part005 == "part_005"
Cerner == "pages/api/callback/cerner.ts:4"
CernerSecond == "pages/api/callback/cerner.ts:45"
CernerEpic == "pages/api/callback/cerner.ts:84"
OAuthCallback == "pages/api/oauth-callback.ts"

\* the handlers that go on to fetch and save clinical resources
FetchingCallbacks == {EpicRoute, Part006, Part007}

\* the handlers of the pages router, whose req.query may hold an array
PagesCallbacks == {Cerner, CernerSecond, CernerEpic, OAuthCallback}

\* the handlers that test the error parameter first
ErrorParamCallbacks == {Part004, Part007Token}

Callbacks ==
    FetchingCallbacks \cup PagesCallbacks \cup ErrorParamCallbacks
    \cup {Part005}

\* the fhir_id of the hardcoded sandbox patients
PATIENTS ==
    {"erXuFYUfucBZaryVksYEcMg3", "eq081-VQEgP8drUUqCWzHfw3",
     "eAB3mDlBBcyUKviyzrxsnAw3"}

resourceTypes ==
    << [type |-> "MedicationRequest", table |-> "medication_requests"],
       [type |-> "Medication", table |-> "medications"],
       [type |-> "MedicationStatement", table |-> "medication_statements"],
       [type |-> "Observation", table |-> "observations"],
       [type |-> "DiagnosticReport", table |-> "diagnostic_reports"],
       [type |-> "Procedure", table |-> "procedures"],
       [type |-> "Goal", table |-> "goals"],
       [type |-> "Condition", table |-> "conditions"],
       [type |-> "CarePlan", table |-> "careplans"],
       [type |-> "Immunization", table |-> "immunizations"] >>

\* a code given several times: req.query.code is an array
CodeList == [present |-> TRUE, text |-> "abc,def", list |-> TRUE]

\* typeof code === "string"
IsString(f) == f.present /\ "list" \notin DOMAIN f

\* ToBoolean(code): an array is truthy
CodeTruthy(f) == IF IsString(f) THEN FieldTruthy(f) ELSE f.present

\* the test with the code taken as present
CodeNeverMissing(cb, code) == FALSE

\* !code, and in two handlers also typeof code !== "string"
CodeMissing(cb, code) ==
    IF cb \in {CernerEpic, OAuthCallback}
    THEN ~CodeTruthy(code) \/ ~IsString(code)
    ELSE ~CodeTruthy(code)

\* the responses
NoAnswer == [kind |-> "none", status |-> 0, to |-> ""]
Json(status) == [kind |-> "json", status |-> status, to |-> ""]
Plain(status) == [kind |-> "text", status |-> status, to |-> ""]
Html == [kind |-> "html", status |-> 200, to |-> ""]
Redirect(to) == [kind |-> "redirect", status |-> 307, to |-> to]
\* an exception no handler code catches: the framework answers 500
Uncaught == [kind |-> "uncaught", status |-> 500, to |-> ""]

ErrorPage == "https://app.well-thread.com/error"
HomePage == "https://app.well-thread.com/"
InsightsPage == "https://app.well-thread.com/HomeInsightsScreen"

\* NextResponse.redirect of part_004 is handed a relative URL, which the
\* framework either resolves or rejects with an exception
RelativeRedirect(to, accepted) == IF accepted THEN Redirect(to) ELSE Uncaught

\* the response to a request that carries an error parameter
ErrorParamAnswer(cb, accepted) ==
    IF cb = Part004 THEN RelativeRedirect("/error?reason=<error>", accepted)
    ELSE Redirect("<origin>/error?reason=<error>")

\* the response to a request without a code
MissingCodeAnswer(cb, q, accepted) ==
    CASE cb = EpicRoute ->
           IF q.ios_app THEN Json(400) ELSE Redirect(ErrorPage)
      [] cb \in {Part006, Part007} -> Redirect(ErrorPage)
      [] cb = Part007Token -> Redirect("<origin>/error?reason=missing_code")
      [] cb = Part004 ->
           RelativeRedirect("/error?reason=missing_code", accepted)
      [] cb \in {Cerner, CernerSecond} -> Json(400)
      [] OTHER -> Plain(400)

\* the response when the token exchange fails; how: "status" (the endpoint
\* answers an error status) or "network" (no answer).  axios throws on
\* both; fetch throws on the second only, and nothing catches it.
ExchangeFailedAnswer(cb, q, how, accepted) ==
    CASE cb = EpicRoute ->
           IF q.ios_app THEN Json(400) ELSE Redirect(ErrorPage)
      [] cb \in {Part006, Part007} -> Redirect(ErrorPage)
      [] cb = Part007Token ->
           IF how = "network" THEN Uncaught
           ELSE Redirect("<origin>/error?reason=token_exchange_failed")
      [] cb = Part004 ->
           IF how = "network" THEN Uncaught
           ELSE RelativeRedirect("/error?reason=token_exchange_failed",
                                 accepted)
      [] cb \in {Cerner, CernerSecond} -> Json(500)
      [] OTHER -> Plain(500)

\* the response of a handler that only exchanges the code
ExchangedAnswer(cb, accepted) ==
    CASE cb \in {Cerner, CernerSecond} -> Redirect("/success")
      [] cb = Part007Token -> Redirect("<origin>/success")
      [] cb = Part004 -> RelativeRedirect("/success", accepted)
      [] OTHER -> Html

\* the response of a fetching handler that ends without an error
DoneAnswer(cb, q) ==
    CASE cb = EpicRoute -> IF q.ios_app THEN Json(200) ELSE Redirect(HomePage)
      [] cb = Part006 -> Redirect(HomePage)
      [] OTHER -> Redirect(InsightsPage)

\* the response of the catch block of a fetching handler
CaughtAnswer(cb, q) ==
    IF cb = EpicRoute /\ q.ios_app THEN Json(400) ELSE Redirect(ErrorPage)

\* the response when the token answer names no patient
NoPatientAnswer(cb, q) ==
    IF cb = EpicRoute /\ q.ios_app THEN Json(400) ELSE Redirect(HomePage)

\* An id is a text field or an absent one.  a || b on ids
IdOr(a, b) == IF FieldTruthy(a) THEN a ELSE b

\* the payload of an id_token, when it decodes
NoPayload == [patient |-> NoField, fhir_patient |-> NoField,
              sub |-> NoField]

\* tokenData.patient || tokenData.patient_id, else the id_token's
\* payload.patient || payload.fhir_patient || payload.sub
ResolvePatientId(data) ==
    LET direct == IdOr(data.patient, data.patient_id)
    IN  IF FieldTruthy(direct) THEN direct
        ELSE IF data.id_token.present /\ data.id_token.decodes
        THEN IdOr(data.id_token.payload.patient,
                  IdOr(data.id_token.payload.fhir_patient,
                       data.id_token.payload.sub))
        ELSE NoField

\* !patientFhirId
IdMissing(id) == ~FieldTruthy(id)

\* every id taken for a sandbox patient
MatchesAnything(id) == TRUE

\* Object.keys(PATIENTS).find(key => PATIENTS[key].fhir_id === id)
MatchesSandboxPatient(id) == id.present /\ id.text \in PATIENTS

\* the patient search parameter fetchEpicResource attaches
PatientParam(cb, id) == IF cb = Part007 THEN NoField ELSE id

\* the loop ending at the first failure
StopsAtFailure(outcome) == outcome \notin {"failed", "storeError"}

\* whether the loop goes on after an attempt: a fetch that fails answers
\* null and a failed upsert is logged; only an exception leaves the loop
LoopGoesOn(outcome) == outcome # "malformed"

(***************************************************************************)
(* Values of the variables a specification does not use.                   *)
(***************************************************************************)
NoTrends == [trend |-> "", change |-> Undefined,
             firstPeriod |-> Undefined, secondPeriod |-> Undefined]

TrendIdle == healthData = <<>> /\ trends = NoTrends /\ simpleTrend = ""
ExtractIdle == payload = AbsentPayload /\ extracted = Undefined
PearsonIdle ==
    x = <<>> /\ y = <<>> /\ pearsonXY = NoCoef /\ pearsonYX = NoCoef
CorrIdle == corrData = <<>> /\ correlations = <<>>

NoCoefF64 == [k |-> "undefined", sgn |-> 0, numerator |-> F64Zero,
              radicand |-> F64Zero]

DecimalIdle == xDec = <<>> /\ yDec = <<>> /\ pearsonDec = NoCoefF64

NoProgress == [completionPercentage |-> Undefined,
               dataConsistency |-> Undefined,
               totalEntries |-> Undefined,
               averageEntriesPerDay |-> Undefined]

Midnight == [day |-> 0, time |-> 0]

ProgressIdle ==
    /\ goal = [start_date |-> Midnight] /\ now = Midnight
    /\ goalData = <<>> /\ progress = NoProgress
    /\ progressAgain = NoProgress

NoRequest == [handler |-> "", hasUserId |-> FALSE, hasGoalId |-> FALSE,
              bodyParses |-> TRUE, endpoint |-> ""]

NoEnv == [configured |-> TRUE, userError |-> FALSE, goalsError |-> FALSE,
          dataError |-> FALSE, goalFound |-> FALSE,
          reply |-> Reply("throws", "")]

NoResponse == [status |-> 0, body |-> Body("", "")]

HandlerIdle ==
    /\ request = NoRequest /\ env = NoEnv
    /\ response = NoResponse /\ effects = <<>>

NoBody == [route |-> "", parses |-> TRUE, hasUserId |-> FALSE,
           dataType |-> NoField, hasData |-> FALSE, timestamp |-> NoField]

NoStoreEnv == [configured |-> TRUE, insertError |-> FALSE]

CreateIdle ==
    /\ postBody = NoBody /\ storeEnv = NoStoreEnv
    /\ healthStore = <<>> /\ postResponse = 0

NoSummary == [totalEntries |-> 0, dataTypes |-> <<>>,
              averageValue |-> Undefined,
              dateRange |-> [start |-> Undefined, end |-> Undefined]]

NoDataSummary ==
    [totalEntries |-> 0, dataTypes |-> 0,
     dateRange |-> [start |-> Undefined, end |-> Undefined],
     byType |-> <<>>]

NoAverages == [type \in DataTypes |-> Undefined]

SummaryIdle ==
    /\ summaryData = <<>> /\ summary = NoSummary
    /\ dataSummary = NoDataSummary /\ avgValue = NoAverages

EntryIdle == entryRows = <<>> /\ grouped = <<>> /\ operands = <<>>

NoToken == [patient |-> NoField, patient_id |-> NoField,
            id_token |-> [present |-> FALSE, decodes |-> FALSE,
                          payload |-> NoPayload],
            received |-> FALSE]

NoSearch == [code |-> NoField, ios_app |-> FALSE, error |-> FALSE]

NoPatient == [fhir_id |-> NoField, from |-> "none"]

OAuthIdle ==
    /\ callback = "" /\ search = NoSearch /\ tokenData = NoToken
    /\ patientFhirId = NoField /\ knownPatient = NoPatient
    /\ attempted = <<>> /\ sent = <<>> /\ upserts = <<>> /\ failed = {}
    /\ answer = NoAnswer

(***************************************************************************)
(* Trend specification: a series is assembled record by record in any      *)
(* order, then either analyser runs on it.  Array.prototype.sort sorts in  *)
(* place, so the caller's array is left sorted.                            *)
(***************************************************************************)
ValueChoices ==
    {Undefined} \cup {JsInt(v) : v \in {-20, 0} \cup (ValueLo..ValueHi)}

InitTrend ==
    /\ pc = {}
    /\ TrendIdle /\ ExtractIdle /\ PearsonIdle /\ CorrIdle /\ DecimalIdle
    /\ OAuthIdle
    /\ EntryIdle
    /\ SummaryIdle
    /\ CreateIdle
    /\ HandlerIdle
    /\ ProgressIdle

AddRecord ==
    /\ pc = {}
    /\ Len(healthData) < MaxRecords
    /\ \E t \in 1..MaxTime, v \in ValueChoices :
          healthData' = Append(healthData, [created_at |-> t, value |-> v])
    /\ UNCHANGED <<pc, trends, simpleTrend, notTrendVars>>

RunCalculateTrends ==
    /\ "calculateTrends" \notin pc
    /\ trends' = calculateTrends(healthData)
    /\ healthData' = IF Len(healthData) = 0 THEN healthData
                     ELSE SortByCreatedAt(healthData)
    /\ pc' = pc \cup {"calculateTrends"}
    /\ UNCHANGED <<simpleTrend, notTrendVars>>

RunCalculateSimpleTrend ==
    /\ "calculateSimpleTrend" \notin pc
    /\ simpleTrend' = calculateSimpleTrend(healthData)
    /\ healthData' = IF Len(healthData) < 2 THEN healthData
                     ELSE SortByCreatedAt(healthData)
    /\ pc' = pc \cup {"calculateSimpleTrend"}
    /\ UNCHANGED <<trends, notTrendVars>>

NextTrend == AddRecord \/ RunCalculateTrends \/ RunCalculateSimpleTrend

SpecTrend == InitTrend /\ [][NextTrend]_vars

(***************************************************************************)
(* Normaliser specification: a payload is a bare value or an object        *)
(* literal built field by field, then extractNumericValue runs on it.      *)
(***************************************************************************)
FieldChoices == {JsInt(v) : v \in 0..MaxFieldNum} \cup {Str}

BarePayloads ==
    {NumberPayload(v) : v \in 0..MaxFieldNum}
    \cup {Bare("number", NaN), Bare("number", PosInfinity),
          Bare("string", Undefined), Bare("boolean", JsInt(1)),
          Bare("boolean", JsInt(0)), Bare("null", Undefined),
          Bare("array", Undefined), AbsentPayload, EmptyObject}

InitExtract ==
    /\ pc = {}
    /\ payload \in BarePayloads
    /\ extracted = Undefined
    /\ TrendIdle /\ PearsonIdle /\ CorrIdle /\ DecimalIdle
    /\ OAuthIdle
    /\ EntryIdle
    /\ SummaryIdle
    /\ CreateIdle
    /\ HandlerIdle
    /\ ProgressIdle

SetField ==
    /\ pc = {}
    /\ payload.kind = "object"
    /\ \E f \in FieldNames, v \in FieldChoices :
          /\ payload.fields[f] = Undefined
          /\ payload' = [payload EXCEPT !.fields[f] = v]
    /\ UNCHANGED <<pc, extracted, notExtractVars>>

RunExtract ==
    /\ pc = {}
    /\ extracted' = extractNumericValue(payload)
    /\ pc' = {"extractNumericValue"}
    /\ UNCHANGED <<payload, notExtractVars>>

NextExtract == SetField \/ RunExtract

SpecExtract == InitExtract /\ [][NextExtract]_vars

(***************************************************************************)
(* Pearson specification: two aligned integer arrays grow together, then   *)
(* the coefficient is computed in both argument orders.                    *)
(***************************************************************************)
SeriesValues == (0 - 1)..MaxVal

InitPearson ==
    /\ pc = {}
    /\ PearsonIdle
    /\ TrendIdle /\ ExtractIdle /\ CorrIdle /\ DecimalIdle
    /\ OAuthIdle
    /\ EntryIdle
    /\ SummaryIdle
    /\ CreateIdle
    /\ HandlerIdle
    /\ ProgressIdle

AppendPair ==
    /\ pc = {}
    /\ Len(x) < MaxLen
    /\ \E a \in SeriesValues, b \in SeriesValues :
          /\ x' = Append(x, a)
          /\ y' = Append(y, b)
    /\ UNCHANGED <<pc, pearsonXY, pearsonYX, notPearsonVars>>

RunPearson ==
    /\ pc = {}
    /\ pearsonXY' = calculatePearsonCorrelation(x, y)
    /\ pearsonYX' = calculatePearsonCorrelation(y, x)
    /\ pc' = {"calculatePearsonCorrelation"}
    /\ UNCHANGED <<x, y, notPearsonVars>>

NextPearson == AppendPair \/ RunPearson

SpecPearson == InitPearson /\ [][NextPearson]_vars

(***************************************************************************)
(* Correlation specification: the correlations handler.  The store hands   *)
(* over rows in ascending date order; each day carries at most one row per *)
(* data type.  The handler groups the rows by date and correlates.         *)
(***************************************************************************)
TypeOrder == <<"sleep", "stress">>

\* the types the rows of the two-type specifications carry
LoggedTypes == {TypeOrder[i] : i \in 1..Len(TypeOrder)}

CorrPayloads == {NumberPayload(v) : v \in 0..MaxCorrValue}

LastDay(rows) == IF rows = <<>> THEN 0 ELSE rows[Len(rows)].date.day

\* the rows of one day, one per data type that has a payload
RECURSIVE DayRows(_, _, _)
DayRows(day, choice, i) ==
    IF i > Len(TypeOrder) THEN <<>>
    ELSE (IF choice[TypeOrder[i]] = AbsentPayload THEN <<>>
          ELSE <<[date |-> [day |-> day, time |-> 0],
                  data_type |-> TypeOrder[i],
                  data |-> choice[TypeOrder[i]]]>>)
         \o DayRows(day, choice, i + 1)

InitCorr ==
    /\ pc = {}
    /\ CorrIdle
    /\ TrendIdle /\ ExtractIdle /\ PearsonIdle /\ DecimalIdle
    /\ OAuthIdle
    /\ EntryIdle
    /\ SummaryIdle
    /\ CreateIdle
    /\ HandlerIdle
    /\ ProgressIdle

AddDay ==
    /\ pc = {}
    /\ LastDay(corrData) < MaxDays
    /\ \E choice \in [LoggedTypes -> CorrPayloads \cup {AbsentPayload}] :
          /\ \E t \in LoggedTypes : choice[t] # AbsentPayload
          /\ corrData' = corrData \o DayRows(LastDay(corrData) + 1, choice, 1)
    /\ UNCHANGED <<pc, correlations, notCorrVars>>

RunCorrelations ==
    /\ pc = {}
    /\ correlations' = calculateCorrelations(groupDataByDate(corrData))
    /\ pc' = {"calculateCorrelations"}
    /\ UNCHANGED <<corrData, notCorrVars>>

NextCorr == AddDay \/ RunCorrelations

SpecCorr == InitCorr /\ [][NextCorr]_vars

(***************************************************************************)
(* Window specification: the correlations handler on a window of up to     *)
(* MaxWindowDays days in which every logged value is a non-zero number, so *)
(* that a type may be missing on the first day of a window that still      *)
(* holds four days shared by both types.                                   *)
(***************************************************************************)
WindowPayloads == {NumberPayload(v) : v \in 1..MaxCorrValue}

AddWindowDay ==
    /\ pc = {}
    /\ LastDay(corrData) < MaxWindowDays
    /\ \E choice \in [LoggedTypes -> WindowPayloads \cup {AbsentPayload}] :
          /\ \E t \in LoggedTypes : choice[t] # AbsentPayload
          /\ corrData' = corrData \o DayRows(LastDay(corrData) + 1, choice, 1)
    /\ UNCHANGED <<pc, correlations, notCorrVars>>

NextWindow == AddWindowDay \/ RunCorrelations

SpecWindow == InitCorr /\ [][NextWindow]_vars

(***************************************************************************)
(* Sample specification: the correlations handler on a window of up to     *)
(* MaxWindowDays days on each of which both types are logged, with values  *)
(* from 0 upwards.                                                         *)
(***************************************************************************)
AddSampleDay ==
    /\ pc = {}
    /\ LastDay(corrData) < MaxWindowDays
    /\ \E choice \in [LoggedTypes -> CorrPayloads] :
          corrData' = corrData \o DayRows(LastDay(corrData) + 1, choice, 1)
    /\ UNCHANGED <<pc, correlations, notCorrVars>>

NextSample == AddSampleDay \/ RunCorrelations

SpecSample == InitCorr /\ [][NextSample]_vars

(***************************************************************************)
(* Order specification: the correlations handler on a window of up to     *)
(* MaxWindowDays days on each of which three types are logged with         *)
(* non-zero values, so that the output can hold several pairs.             *)
(***************************************************************************)
AllTypesOrder == <<"sleep", "stress", "mood">>

AllTypeRows(day, choice) ==
    [i \in 1..Len(AllTypesOrder) |->
        [date |-> [day |-> day, time |-> 0],
         data_type |-> AllTypesOrder[i],
         data |-> choice[AllTypesOrder[i]]]]

AddOrderDay ==
    /\ pc = {}
    /\ LastDay(corrData) < MaxWindowDays
    /\ \E choice \in [DataTypes -> WindowPayloads] :
          corrData' = corrData \o AllTypeRows(LastDay(corrData) + 1, choice)
    /\ UNCHANGED <<pc, correlations, notCorrVars>>

NextOrder == AddOrderDay \/ RunCorrelations

SpecOrder == InitCorr /\ [][NextOrder]_vars

(***************************************************************************)
(* Decimal Pearson specification: two aligned arrays of decimal values     *)
(* (0.1 and 0.7, given in tenths) grow together, then the coefficient is   *)
(* computed in binary64 arithmetic.                                        *)
(***************************************************************************)
DecimalTenths == {1, 7}

\* the array of doubles denoted by an array of tenths
Doubles(a) == [i \in 1..Len(a) |-> F64FromTenths(a[i])]

InitDecimal ==
    /\ pc = {}
    /\ DecimalIdle
    /\ TrendIdle /\ ExtractIdle /\ PearsonIdle /\ CorrIdle
    /\ OAuthIdle
    /\ EntryIdle
    /\ SummaryIdle
    /\ CreateIdle
    /\ HandlerIdle
    /\ ProgressIdle

AppendDecimalPair ==
    /\ pc = {}
    /\ Len(xDec) < MaxDecimalLen
    /\ \E a \in DecimalTenths, b \in DecimalTenths :
          /\ xDec' = Append(xDec, a)
          /\ yDec' = Append(yDec, b)
    /\ UNCHANGED <<pc, pearsonDec, notDecimalVars>>

RunPearsonDecimal ==
    /\ pc = {}
    /\ pearsonDec' = calculatePearsonCorrelationF64(Doubles(xDec),
                                                    Doubles(yDec))
    /\ pc' = {"calculatePearsonCorrelation"}
    /\ UNCHANGED <<xDec, yDec, notDecimalVars>>

NextDecimal == AppendDecimalPair \/ RunPearsonDecimal

SpecDecimal == InitDecimal /\ [][NextDecimal]_vars

(***************************************************************************)
(* Progress specification: the progress handler for one active goal.  The  *)
(* goal starts at midnight or at noon; the clock advances in half days;    *)
(* rows are logged at the clock's date, so the store hands them over in    *)
(* ascending date order, all dated on or after start_date.  The handler    *)
(* runs, and may run again later on the same rows.                         *)
(***************************************************************************)
HalfDay == MsPerDay \div 2

\* the date half a day after `date`
HalfDayLater(date) ==
    IF date.time + HalfDay >= MsPerDay
    THEN [day |-> date.day + 1, time |-> date.time + HalfDay - MsPerDay]
    ELSE [day |-> date.day, time |-> date.time + HalfDay]

InitProgress ==
    /\ pc = {}
    /\ \E t \in {0, HalfDay} :
          /\ goal = [start_date |-> [day |-> 0, time |-> t]]
          /\ now = [day |-> 0, time |-> t]
    /\ goalData = <<>>
    /\ progress = NoProgress
    /\ progressAgain = NoProgress
    /\ TrendIdle /\ ExtractIdle /\ PearsonIdle /\ CorrIdle /\ DecimalIdle
    /\ OAuthIdle
    /\ EntryIdle
    /\ SummaryIdle
    /\ CreateIdle
    /\ HandlerIdle

Tick ==
    /\ "again" \notin pc
    /\ now.day < MaxProgressDays
    /\ now' = HalfDayLater(now)
    /\ UNCHANGED <<pc, goal, goalData, progress, progressAgain,
                   notProgressVars>>

LogRecord ==
    /\ pc = {}
    /\ Len(goalData) < MaxGoalRecords
    /\ goalData' = Append(goalData, [date |-> now])
    /\ UNCHANGED <<pc, goal, now, progress, progressAgain, notProgressVars>>

RunProgress ==
    /\ pc = {}
    /\ progress' = calculateGoalProgress(goal, goalData, now)
    /\ pc' = {"calculateGoalProgress"}
    /\ UNCHANGED <<goal, now, goalData, progressAgain, notProgressVars>>

RerunProgress ==
    /\ pc = {"calculateGoalProgress"}
    /\ progressAgain' = calculateGoalProgress(goal, goalData, now)
    /\ pc' = {"calculateGoalProgress", "again"}
    /\ UNCHANGED <<goal, now, goalData, progress, notProgressVars>>

NextProgress == Tick \/ LogRecord \/ RunProgress \/ RerunProgress

SpecProgress == InitProgress /\ [][NextProgress]_vars

(***************************************************************************)
(* Handler specification: the server answers a request.  The request       *)
(* reaches one handler; the store may fail any of its queries, and the     *)
(* summarizer answers in any of its ways.                                  *)
(***************************************************************************)
Envs ==
    [configured : BOOLEAN, userError : BOOLEAN, goalsError : BOOLEAN,
     dataError : BOOLEAN, goalFound : BOOLEAN, reply : Replies]

\* the requests a GET handler can get (a GET has no body to parse)
GetRequests(handler, endpoints) ==
    [handler : {handler}, hasUserId : BOOLEAN, hasGoalId : BOOLEAN,
     bodyParses : {TRUE}, endpoint : endpoints]

\* the requests a POST handler can get; a body that does not parse
\* carries no field
PostRequests(handler) ==
    {req \in [handler : {handler}, hasUserId : BOOLEAN, hasGoalId : BOOLEAN,
              bodyParses : BOOLEAN, endpoint : {""}] :
        ~req.bodyParses => (~req.hasUserId /\ ~req.hasGoalId)}

InitHandler ==
    /\ pc = {}
    /\ HandlerIdle
    /\ TrendIdle /\ ExtractIdle /\ PearsonIdle /\ CorrIdle /\ DecimalIdle
    /\ OAuthIdle
    /\ EntryIdle
    /\ SummaryIdle
    /\ CreateIdle
    /\ ProgressIdle

\* the server hands `req` to the handler `Handle` under environment `e`
Serve(req, e, Handle(_, _)) ==
    /\ request' = req
    /\ env' = e
    /\ response' = [status |-> Handle(req, e).status,
                    body |-> Handle(req, e).body]
    /\ effects' = Handle(req, e).effects
    /\ pc' = {req.handler}
    /\ UNCHANGED notHandlerVars

ServeAnalytics ==
    /\ pc = {}
    /\ \E req \in GetRequests("analytics", {"trends", "correlations", "summary"}),
          e \in Envs : Serve(req, e, AnalyticsGET)

ServeTrends ==
    /\ pc = {}
    /\ \E req \in GetRequests("trends", {""}), e \in Envs :
           Serve(req, e, TrendsGET)

ServeCorrelations ==
    /\ pc = {}
    /\ \E req \in GetRequests("correlations", {""}), e \in Envs :
           Serve(req, e, CorrelationsGET)

ServeProgress ==
    /\ pc = {}
    /\ \E req \in GetRequests("progress", {""}), e \in Envs :
           Serve(req, e, ProgressGET)

ServeDashboard ==
    /\ pc = {}
    /\ \E req \in GetRequests("dashboard", {"overview", "summary"}),
          e \in Envs : Serve(req, e, DashboardGET)

ServeUserDashboard ==
    /\ pc = {}
    /\ \E req \in GetRequests("userDashboard", {""}), e \in Envs :
           Serve(req, e, UserDashboardGET)

ServeDashboardSummary ==
    /\ pc = {}
    /\ \E req \in GetRequests("dashboardSummary", {""}), e \in Envs :
           Serve(req, e, DashboardSummaryGET)

ServeInsightsGET ==
    /\ pc = {}
    /\ \E req \in GetRequests("insightsGET", {"generate", "recommendations"}),
          e \in Envs : Serve(req, e, InsightsGET)

ServeInsightsPOST ==
    /\ pc = {}
    /\ \E req \in PostRequests("insightsPOST"), e \in Envs :
           Serve(req, e, InsightsPOST)

ServeGeneratePOST ==
    /\ pc = {}
    /\ \E req \in PostRequests("generatePOST"), e \in Envs :
           Serve(req, e, GeneratePOST)

ServeDaily ==
    /\ pc = {}
    /\ \E req \in GetRequests("daily", {""}), e \in Envs :
           Serve(req, e, DailyGET)

ServeRecommendations ==
    /\ pc = {}
    /\ \E req \in GetRequests("recommendations", {""}), e \in Envs :
           Serve(req, e, RecommendationsGET)

NextHandler ==
    \/ ServeAnalytics \/ ServeTrends \/ ServeCorrelations \/ ServeProgress
    \/ ServeDashboard \/ ServeUserDashboard \/ ServeDashboardSummary
    \/ ServeInsightsGET \/ ServeInsightsPOST \/ ServeGeneratePOST
    \/ ServeDaily \/ ServeRecommendations

SpecHandler == InitHandler /\ [][NextHandler]_vars

(***************************************************************************)
(* Create specification: create requests arrive one after another at       *)
(* either POST handler and the store grows by the rows they insert.        *)
(***************************************************************************)
DataTypeFields == {NoField, Text("sleep"), Text("steps")}

TimestampFields ==
    {NoField, Text(""), Text("2024-01-15"), Text("not-a-date")}

\* the bodies a POST handler can get; a body that does not parse carries
\* no field
PostBodies(route) ==
    {b \in [route : {route}, parses : BOOLEAN, hasUserId : BOOLEAN,
            dataType : DataTypeFields, hasData : BOOLEAN,
            timestamp : TimestampFields] :
        ~b.parses => (/\ ~b.hasUserId /\ ~b.hasData
                      /\ b.dataType = NoField /\ b.timestamp = NoField)}

StoreEnvs == [configured : BOOLEAN, insertError : BOOLEAN]

InitCreate ==
    /\ pc = {}
    /\ CreateIdle
    /\ TrendIdle /\ ExtractIdle /\ PearsonIdle /\ CorrIdle /\ DecimalIdle
    /\ OAuthIdle
    /\ EntryIdle
    /\ SummaryIdle
    /\ ProgressIdle
    /\ HandlerIdle

\* one create request handled by `Post`
Create(body, e, Post(_, _, _)) ==
    /\ postBody' = body
    /\ storeEnv' = e
    /\ healthStore' = Post(body, e, healthStore).store
    /\ postResponse' = Post(body, e, healthStore).status
    /\ pc' = {body.route}
    /\ UNCHANGED notCreateVars

CreateData ==
    /\ Len(healthStore) < MaxStoreRows
    /\ \E body \in PostBodies("data/route.ts"),
          e \in {env0 \in StoreEnvs : env0.configured} :
           Create(body, e, PostData)

CreateLog ==
    /\ Len(healthStore) < MaxStoreRows
    /\ \E body \in PostBodies("part_003"), e \in StoreEnvs :
           Create(body, e, PostLog)

NextCreate == CreateData \/ CreateLog

SpecCreate == InitCreate /\ [][NextCreate]_vars

(***************************************************************************)
(* Summary specification: rows arrive newest first (the queries order by   *)
(* created_at descending); a row carries its number in the value column,   *)
(* or a payload in the data column, in the wrapper column, or in both;     *)
(* then one of the summary functions runs on the rows.                     *)
(***************************************************************************)
ObjectWith(field, v) ==
    [kind |-> "object", num |-> Undefined,
     fields |-> [NoFields EXCEPT ![field] = JsInt(v)]]

SummaryPayloads ==
    {NumberPayload(0), ObjectWith("value", 0), ObjectWith("level", 6),
     Bare("string", Undefined)}

SummaryValues == {Undefined, Null, JsInt(0), JsInt(6)}

\* value column, data column, wrapper column of a row
RowShapes ==
    {<<v, AbsentPayload, AbsentPayload>> : v \in SummaryValues}
    \cup {<<Undefined, p, p>> : p \in SummaryPayloads}
    \cup {<<Undefined, p, AbsentPayload>> : p \in SummaryPayloads}
    \cup {<<Undefined, AbsentPayload, p>> : p \in SummaryPayloads}

InitSummary ==
    /\ pc = {}
    /\ SummaryIdle
    /\ TrendIdle /\ ExtractIdle /\ PearsonIdle /\ CorrIdle /\ DecimalIdle
    /\ OAuthIdle
    /\ EntryIdle
    /\ ProgressIdle
    /\ HandlerIdle
    /\ CreateIdle

AddSummaryRow ==
    /\ pc = {}
    /\ Len(summaryData) < MaxSummaryRows
    /\ \E type \in LoggedTypes, shape \in RowShapes, day \in 1..MaxSummaryDay :
          /\ summaryData # <<>> => day > summaryData[1].created_at
          /\ summaryData' =
                 <<[data_type |-> type, created_at |-> day,
                    value |-> shape[1], data |-> shape[2],
                    wrapper |-> shape[3]]>> \o summaryData
    /\ UNCHANGED <<pc, summary, dataSummary, avgValue, notSummaryVars>>

RunCalculateSummary ==
    /\ pc = {}
    /\ summary' = calculateSummary(summaryData)
    /\ pc' = {"calculateSummary"}
    /\ UNCHANGED <<summaryData, dataSummary, avgValue, notSummaryVars>>

RunPrepareDataSummary ==
    /\ pc = {}
    /\ dataSummary' = prepareDataSummary(summaryData)
    /\ pc' = {"prepareDataSummary"}
    /\ UNCHANGED <<summaryData, summary, avgValue, notSummaryVars>>

RunCalculateAverageValue ==
    /\ pc = {}
    /\ avgValue' = [type \in DataTypes |->
                       calculateAverageValue(RowsOfType(summaryData, type))]
    /\ pc' = {"calculateAverageValue"}
    /\ UNCHANGED <<summaryData, summary, dataSummary, notSummaryVars>>

NextSummary ==
    \/ AddSummaryRow \/ RunCalculateSummary \/ RunPrepareDataSummary
    \/ RunCalculateAverageValue

SpecSummary == InitSummary /\ [][NextSummary]_vars

(***************************************************************************)
(* Entry specification: rows arrive in ascending date order, several of    *)
(* them possibly on the same day and of the same type; then the rows are   *)
(* grouped by date, or each analysis reads its number from every row.      *)
(***************************************************************************)
InitEntry ==
    /\ pc = {}
    /\ EntryIdle
    /\ TrendIdle /\ ExtractIdle /\ PearsonIdle /\ CorrIdle /\ DecimalIdle
    /\ OAuthIdle
    /\ ProgressIdle
    /\ HandlerIdle
    /\ CreateIdle
    /\ SummaryIdle

AddEntry ==
    /\ pc = {}
    /\ Len(entryRows) < MaxEntries
    /\ \E type \in LoggedTypes, shape \in RowShapes,
          day \in {LastDay(entryRows), LastDay(entryRows) + 1} :
          /\ day >= 1
          /\ entryRows' =
                 Append(entryRows,
                        [date |-> [day |-> day, time |-> 0],
                         data_type |-> type, value |-> shape[1],
                         data |-> shape[2], wrapper |-> shape[3]])
    /\ UNCHANGED <<pc, grouped, operands, notEntryVars>>

RunGroupDataByDate ==
    /\ pc = {}
    /\ grouped' = groupDataByDate(entryRows)
    /\ pc' = {"groupDataByDate"}
    /\ UNCHANGED <<entryRows, operands, notEntryVars>>

ReadOperands ==
    /\ pc = {}
    /\ operands' = [i \in 1..Len(entryRows) |-> Operands(entryRows[i])]
    /\ pc' = {"operands"}
    /\ UNCHANGED <<entryRows, grouped, notEntryVars>>

NextEntry == AddEntry \/ RunGroupDataByDate \/ ReadOperands

SpecEntry == InitEntry /\ [][NextEntry]_vars

(***************************************************************************)
(* OAuth specification: one callback request is served by one of the      *)
(* handlers, step by step: the code test, the token exchange, the Patient  *)
(* read, the lookup in the patients table, and one step per resource type  *)
(* of the fetch loop.                                                      *)
(***************************************************************************)
SandboxId == Text("erXuFYUfucBZaryVksYEcMg3")
OtherId == Text("e63wRTbPfr1p8UW81d8Seiw3")

Codes(cb) ==
    {NoField, Text(""), Text("abc")}
    \cup (IF cb \in PagesCallbacks THEN {CodeList} ELSE {})

Searches(cb) ==
    {[code |-> c, ios_app |-> ios, error |-> err] :
        c \in Codes(cb),
        ios \in (IF cb = EpicRoute THEN BOOLEAN ELSE {FALSE}),
        err \in (IF cb \in ErrorParamCallbacks THEN BOOLEAN ELSE {FALSE})}

IdToken(claims) == [present |-> TRUE, decodes |-> TRUE, payload |-> claims]

\* the bodies the token endpoint answers with
TokenAnswers ==
    {[NoToken EXCEPT !.received = TRUE, !.patient = id] :
        id \in {SandboxId, OtherId}}
    \cup {[NoToken EXCEPT !.received = TRUE, !.patient_id = SandboxId],
          [NoToken EXCEPT !.received = TRUE,
                          !.id_token = IdToken([NoPayload EXCEPT
                                                   !.sub = SandboxId])],
          [NoToken EXCEPT !.received = TRUE,
                          !.id_token = [present |-> TRUE, decodes |-> FALSE,
                                        payload |-> NoPayload]],
          [NoToken EXCEPT !.received = TRUE]}

TokenRequest == [to |-> "token", patient |-> NoField]

InitOAuth ==
    /\ pc = {}
    /\ OAuthIdle
    /\ TrendIdle /\ ExtractIdle /\ PearsonIdle /\ CorrIdle /\ DecimalIdle
    /\ ProgressIdle
    /\ HandlerIdle
    /\ CreateIdle
    /\ SummaryIdle
    /\ EntryIdle

\* the handler up to its first await: the error parameter and the code
Receive ==
    /\ pc = {}
    /\ callback = ""
    /\ \E cb \in Callbacks, accepted \in BOOLEAN : \E q \in Searches(cb) :
          /\ callback' = cb
          /\ search' = q
          /\ IF cb \in ErrorParamCallbacks /\ q.error
             THEN answer' = ErrorParamAnswer(cb, accepted)
                  /\ pc' = {"responded"}
             ELSE IF CodeMissing(cb, q.code)
             THEN answer' = MissingCodeAnswer(cb, q, accepted)
                  /\ pc' = {"responded"}
             ELSE IF cb = Part005
             THEN answer' = Html /\ pc' = {"responded"}
             ELSE answer' = answer /\ pc' = {"exchange"}
    /\ UNCHANGED <<tokenData, patientFhirId, knownPatient, attempted, sent,
                   upserts, failed, notOAuthVars>>

\* the token request is sent and fails
ExchangeFails ==
    /\ pc = {"exchange"}
    /\ sent' = Append(sent, TokenRequest)
    /\ \E how \in {"status", "network"}, accepted \in BOOLEAN :
          answer' = ExchangeFailedAnswer(callback, search, how, accepted)
    /\ pc' = {"responded"}
    /\ UNCHANGED <<callback, search, tokenData, patientFhirId, knownPatient,
                   attempted, upserts, failed, notOAuthVars>>

\* the token request is sent and answered; the handler runs on to its next
\* await or to its response
ExchangeToken ==
    /\ pc = {"exchange"}
    /\ sent' = Append(sent, TokenRequest)
    /\ \E data \in TokenAnswers, accepted \in BOOLEAN :
          /\ tokenData' = data
          /\ IF callback \notin FetchingCallbacks
             THEN /\ answer' = ExchangedAnswer(callback, accepted)
                  /\ pc' = {"responded"}
                  /\ patientFhirId' = patientFhirId
             ELSE IF callback = Part007
             THEN /\ answer' = answer
                  /\ pc' = {"patient"}
                  /\ patientFhirId' = patientFhirId
             ELSE /\ patientFhirId' = ResolvePatientId(data)
                  /\ IF IdMissing(ResolvePatientId(data))
                     THEN /\ answer' = NoPatientAnswer(callback, search)
                          /\ pc' = {"responded"}
                     ELSE /\ answer' = answer
                          /\ pc' = {"patient"}
    /\ UNCHANGED <<callback, search, knownPatient, attempted, upserts,
                   failed, notOAuthVars>>

\* route.ts and part_006: fetchEpicPatient reads Patient/<id>; a failure is
\* caught and only the name shown is lost.  part_006 then maps the id to a
\* sandbox patient.
FetchEpicPatient ==
    /\ pc = {"patient"}
    /\ callback \in {EpicRoute, Part006}
    /\ sent' = Append(sent, [to |-> "Patient", patient |-> patientFhirId])
    /\ IF callback = EpicRoute
       THEN /\ pc' = {"lookup"}
            /\ UNCHANGED <<knownPatient, answer>>
       ELSE IF MatchesSandboxPatient(patientFhirId)
       THEN /\ knownPatient' = [fhir_id |-> patientFhirId,
                                from |-> "PATIENTS"]
            /\ pc' = {"resources"}
            /\ answer' = answer
       ELSE /\ answer' = Redirect(HomePage)
            /\ pc' = {"responded"}
            /\ knownPatient' = knownPatient
    /\ UNCHANGED <<callback, search, tokenData, patientFhirId, attempted,
                   upserts, failed, notOAuthVars>>

\* part_007 reads the Patient endpoint without an id and takes the id of
\* what comes back; a failed read is caught by the handler
ReadPatient ==
    /\ pc = {"patient"}
    /\ callback = Part007
    /\ sent' = Append(sent, [to |-> "Patient", patient |-> NoField])
    /\ \E ok \in BOOLEAN, id \in {NoField, SandboxId, OtherId} :
          IF ~ok
          THEN /\ answer' = CaughtAnswer(callback, search)
               /\ pc' = {"responded"}
               /\ UNCHANGED <<patientFhirId, knownPatient>>
          ELSE /\ patientFhirId' = id
               /\ IF MatchesSandboxPatient(id)
                  THEN /\ knownPatient' = [fhir_id |-> id,
                                           from |-> "PATIENTS"]
                       /\ pc' = {"resources"}
                       /\ answer' = answer
                  ELSE /\ answer' = Redirect(InsightsPage)
                       /\ pc' = {"responded"}
                       /\ knownPatient' = knownPatient
    /\ UNCHANGED <<callback, search, tokenData, attempted, upserts, failed,
                   notOAuthVars>>

\* route.ts: the row of the patients table with that patient_fhir_id
LookupPatient ==
    /\ pc = {"lookup"}
    /\ \E found \in BOOLEAN :
          IF found
          THEN /\ knownPatient' = [fhir_id |-> patientFhirId,
                                   from |-> "patients"]
               /\ pc' = {"resources"}
               /\ answer' = answer
          ELSE /\ answer' = DoneAnswer(callback, search)
               /\ pc' = {"responded"}
               /\ knownPatient' = knownPatient
    /\ UNCHANGED <<callback, search, tokenData, patientFhirId, attempted,
                   sent, upserts, failed, notOAuthVars>>

\* one turn of the loop of fetchAndSavePatientResources: the resource type
\* is fetched and its entries, if any, upserted.  outcome: "failed" (the
\* fetch fails), "empty" (no entries), "stored", "storeError" (the upsert
\* answers an error), "malformed" (an entry without a resource, on which
\* the mapping throws).  After the last type the handler responds.
FetchAndSave ==
    /\ pc = {"resources"}
    /\ Len(attempted) < Len(resourceTypes)
    /\ LET next == resourceTypes[Len(attempted) + 1]
           param == PatientParam(callback, knownPatient.fhir_id)
       IN  /\ sent' = Append(sent, [to |-> next.type, patient |-> param])
           /\ attempted' = Append(attempted, next.type)
           /\ \E outcome \in {"failed", "empty", "stored", "storeError",
                              "malformed"} :
                 /\ upserts' =
                       IF outcome \in {"stored", "storeError"}
                       THEN Append(upserts,
                                   [table |-> next.table,
                                    patient_fhir_id |-> knownPatient.fhir_id,
                                    fetchedFor |-> param])
                       ELSE upserts
                 /\ failed' =
                       CASE outcome = "failed" -> failed \cup {"fetch"}
                         [] outcome = "storeError" -> failed \cup {"upsert"}
                         [] outcome = "malformed" -> failed \cup {"entry"}
                         [] OTHER -> failed
                 /\ IF outcome = "malformed"
                    THEN /\ answer' = CaughtAnswer(callback, search)
                         /\ pc' = {"responded"}
                    ELSE IF ~LoopGoesOn(outcome)
                            \/ Len(attempted) + 1 = Len(resourceTypes)
                    THEN /\ answer' = DoneAnswer(callback, search)
                         /\ pc' = {"responded"}
                    ELSE /\ answer' = answer
                         /\ pc' = pc
    /\ UNCHANGED <<callback, search, tokenData, patientFhirId, knownPatient,
                   notOAuthVars>>

NextOAuth ==
    \/ Receive \/ ExchangeFails \/ ExchangeToken \/ FetchEpicPatient
    \/ ReadPatient \/ LookupPatient \/ FetchAndSave

SpecOAuth == InitOAuth /\ [][NextOAuth]_vars

(***************************************************************************)
(* Reference quantities for the trend claims, stated over index sets of    *)
(* the input rather than over the arrays the code builds.                  *)
(***************************************************************************)
HasValue(r) == IsNumber(r.value)

\* position of record i in chronological order, ties in input order
Rank(data, i) ==
    Cardinality({j \in 1..Len(data) :
        \/ data[j].created_at < data[i].created_at
        \/ data[j].created_at = data[i].created_at /\ j < i}) + 1

EarlyIdx(data) == {i \in 1..Len(data) : Rank(data, i) <= Len(data) \div 2}
LateIdx(data) == (1..Len(data)) \ EarlyIdx(data)

\* sum of the numeric values of the records with index in S
RECURSIVE SumIdx(_, _)
SumIdx(data, S) ==
    IF S = {} THEN 0
    ELSE LET i == CHOOSE m \in S : TRUE
         IN  (IF HasValue(data[i]) THEN data[i].value.n ELSE 0)
             + SumIdx(data, S \ {i})

ValuedIdx(data, S) == {i \in S : HasValue(data[i])}

\* numerator and denominator of (second - first) / first * 100, or 0/1
PctNum(fp, sp) ==
    IF fp.n > 0 THEN 100 * (sp.n * fp.d - fp.n * sp.d) ELSE 0
PctDen(fp, sp) == IF fp.n > 0 THEN sp.d * fp.n ELSE 1

DirectionMatches(dir, fp, sp) ==
    LET P == PctNum(fp, sp)
        Q == PctDen(fp, sp)
    IN  /\ dir \in {"increasing", "decreasing", "stable"}
        /\ dir = "increasing" <=> P > 5 * Q
        /\ dir = "decreasing" <=> P < (-5) * Q

\* the number m is the mean of the valued records of S (0 when none)
IsMeanExcludingMissing(m, data, S) ==
    LET V == ValuedIdx(data, S)
    IN  /\ IsNumber(m)
        /\ IF V = {} THEN m.n = 0
           ELSE m.n * Cardinality(V) = m.d * SumIdx(data, V)

RanTrends == "calculateTrends" \in pc
RanSimple == "calculateSimpleTrend" \in pc

(***************************************************************************)
(* C1: a series with fewer than 2 points yields no_data (0 points) or      *)
(* insufficient_data (1 point) and no numeric percentChange, in both       *)
(* calculateTrends and calculateSimpleTrend.                               *)
(***************************************************************************)
C1_ShortSeriesHasNoTrend ==
    LET expected == IF Len(healthData) = 0 THEN "no_data"
                    ELSE "insufficient_data"
    IN  Len(healthData) < 2 =>
          /\ RanTrends => trends.trend = expected /\ ~IsNumber(trends.change)
          /\ RanSimple => simpleTrend = expected

(***************************************************************************)
(* C2: for a series of at least 2 points the direction is increasing       *)
(* exactly when the percent change of the two half means is > +5,          *)
(* decreasing exactly when it is < -5, and stable otherwise.               *)
(***************************************************************************)
C2_DirectionThresholds ==
    Len(healthData) >= 2 =>
      /\ RanTrends =>
           DirectionMatches(trends.trend, trends.firstPeriod,
                            trends.secondPeriod)
      /\ RanTrends /\ RanSimple =>
           DirectionMatches(simpleTrend, trends.firstPeriod,
                            trends.secondPeriod)

C2_Witness ==
    /\ RanTrends /\ RanSimple
    /\ Len(healthData) >= 2
    /\ trends.firstPeriod = JsInt(20)
    /\ trends.secondPeriod = JsInt(21)
    /\ trends.trend = "stable"
    /\ simpleTrend = "stable"

(***************************************************************************)
(* C3 as stated: for n >= 2 records in any input order, the reported       *)
(* percentChange is exactly (secondMean - firstMean) / firstMean * 100     *)
(* (0 when firstMean <= 0) over the chronological floor(n/2) split.        *)
(***************************************************************************)
C3_PercentChangeExact ==
    [][(RunCalculateTrends /\ Len(healthData) >= 2
          /\ \A i \in 1..Len(healthData) : HasValue(healthData[i]))
       => LET E == EarlyIdx(healthData)
              L == LateIdx(healthData)
              first == [n |-> SumIdx(healthData, E), d |-> Cardinality(E)]
              second == [n |-> SumIdx(healthData, L), d |-> Cardinality(L)]
              ch == trends'.change
          IN  /\ IsNumber(ch)
              /\ ch.n * PctDen(first, second) = ch.d * PctNum(first, second)
      ]_vars

(***************************************************************************)
(* C3 amended: the reported percentChange is that quantity rounded to 2    *)
(* decimals (halves up), computed from the reported half means, which for  *)
(* records that all carry a number are the means of the first floor(n/2)   *)
(* and of the remaining records in chronological order.                    *)
(***************************************************************************)
C3_PercentChangeRounded ==
    [][(RunCalculateTrends /\ Len(healthData) >= 2)
       => LET E == EarlyIdx(healthData)
              L == LateIdx(healthData)
              fp == trends'.firstPeriod
              sp == trends'.secondPeriod
              ch == trends'.change
              P == PctNum(fp, sp)
              Q == PctDen(fp, sp)
              h == ch.n * (100 \div ch.d)
          IN  /\ IsNumber(fp) /\ IsNumber(sp) /\ IsNumber(ch)
              /\ (\A i \in 1..Len(healthData) : HasValue(healthData[i]))
                   => /\ fp.n * Cardinality(E) = fp.d * SumIdx(healthData, E)
                      /\ sp.n * Cardinality(L) = sp.d * SumIdx(healthData, L)
              /\ 100 % ch.d = 0
              /\ 2 * h * Q <= 200 * P + Q
              /\ 200 * P + Q < 2 * (h + 1) * Q
      ]_vars

C3_Witness ==
    /\ RanTrends
    /\ Len(healthData) = 3
    /\ trends.firstPeriod = JsInt(21)
    /\ trends.secondPeriod = JsInt(22)
    /\ trends.change = Num(476, 100)

(***************************************************************************)
(* C4: records without a numeric value are left out of each half's mean    *)
(* (sum and divisor); a half's mean is 0 only when the whole half is       *)
(* missing.                                                                *)
(***************************************************************************)
C4_MissingValuesExcluded ==
    (RanTrends /\ Len(healthData) >= 2) =>
        LET n == Len(healthData)
        IN  /\ IsMeanExcludingMissing(trends.firstPeriod, healthData,
                                      1..(n \div 2))
            /\ IsMeanExcludingMissing(trends.secondPeriod, healthData,
                                      ((n \div 2) + 1)..n)

(***************************************************************************)
(* Reference quantities for the correlation claims, stated over the rows   *)
(* the handler fetched.                                                    *)
(***************************************************************************)
RanCorrelations == "calculateCorrelations" \in pc

\* the payload carries a number: a bare number or an object with a number
\* under one of the known fields
NumericPayload(data) ==
    \/ data.kind = "number" /\ data.num.k = "number"
    \/ data.kind = "object"
         /\ \E f \in FieldNames : data.fields[f].k = "number"

RowsOf(day, type) ==
    {i \in 1..Len(corrData) :
        corrData[i].date.day = day /\ corrData[i].data_type = type}

HasNumericValue(day, type) ==
    \E i \in RowsOf(day, type) : NumericPayload(corrData[i].data)

SharedDays(a, b) ==
    {day \in 1..LastDay(corrData) :
        HasNumericValue(day, a) /\ HasNumericValue(day, b)}

\* the bare number a type carries on a day (first row of that day)
DayValue(day, type) ==
    LET i == CHOOSE m \in RowsOf(day, type) :
                 \A o \in RowsOf(day, type) : m <= o
    IN  corrData[i].data.num.n

\* the values of a type on the days of S, in day order
RECURSIVE DayVector(_, _, _)
DayVector(S, type, day) ==
    IF day > LastDay(corrData) THEN <<>>
    ELSE (IF day \in S THEN <<DayValue(day, type)>> ELSE <<>>)
         \o DayVector(S, type, day + 1)

EntriesOf(a, b) ==
    {i \in 1..Len(correlations) :
        {correlations[i].type1, correlations[i].type2} = {a, b}}

TypePairs == {pr \in DataTypes \X DataTypes : pr[1] # pr[2]}

(***************************************************************************)
(* C5: a pair of data types sharing fewer than 4 days on which both have   *)
(* a numeric value never appears in the correlation output.                *)
(***************************************************************************)
C5_FewSharedDaysExcluded ==
    RanCorrelations =>
        \A pr \in TypePairs :
            Cardinality(SharedDays(pr[1], pr[2])) < 4
                => EntriesOf(pr[1], pr[2]) = {}

\* three shared days, perfectly correlated and not constant: left out
C5_Witness ==
    /\ RanCorrelations
    /\ correlations = <<>>
    /\ LET S == SharedDays("sleep", "stress")
       IN  /\ Cardinality(S) = 3
           /\ \A day \in S : /\ DayValue(day, "sleep") = DayValue(day, "stress")
                             /\ DayValue(day, "sleep") # 0
           /\ \E d1 \in S, d2 \in S :
                  DayValue(d1, "sleep") # DayValue(d2, "sleep")

(***************************************************************************)
(* C6: a pair with at least 4 shared days appears in the output exactly    *)
(* when its Pearson coefficient r has |r| > 0.3; then strength is strong   *)
(* exactly when |r| > 0.7 (else moderate) and direction is positive        *)
(* exactly when r > 0 (else negative).                                     *)
(***************************************************************************)
C6_SignificantPairsReported ==
    RanCorrelations =>
        \A pr \in TypePairs :
            LET S == SharedDays(pr[1], pr[2])
                r == calculatePearsonCorrelation(DayVector(S, pr[1], 1),
                                                 DayVector(S, pr[2], 1))
            IN  Cardinality(S) >= 4 =>
                  /\ EntriesOf(pr[1], pr[2]) # {} <=> AbsGreater(r, 3, 10)
                  /\ \A i \in EntriesOf(pr[1], pr[2]) :
                        /\ correlations[i].strength =
                             IF AbsGreater(r, 7, 10) THEN "strong"
                             ELSE "moderate"
                        /\ correlations[i].direction =
                             IF r.sgn > 0 THEN "positive" ELSE "negative"

(***************************************************************************)
(* Reference quantities for the Pearson claims.                            *)
(***************************************************************************)
RanPearson == "calculatePearsonCorrelation" \in pc

Constant(a) == \A i \in 1..Len(a) : a[i] = a[1]

\* sum over i of a[i] * b[i], from index i upwards
RECURSIVE DotFrom(_, _, _)
DotFrom(a, b, i) ==
    IF i > Len(a) THEN 0 ELSE a[i] * b[i] + DotFrom(a, b, i + 1)

Ones(n) == [i \in 1..n |-> 1]

(***************************************************************************)
(* C7: for two aligned series of equal length >= 4 of which at least one   *)
(* is constant, calculatePearsonCorrelation returns exactly 0 and never a  *)
(* non-number.                                                             *)
(***************************************************************************)
C7_ConstantSeriesGiveZero ==
    (RanPearson /\ Len(xDec) >= 4 /\ (Constant(xDec) \/ Constant(yDec)))
        => pearsonDec.k = "number" /\ pearsonDec.sgn = 0

\* the same statement for integer-valued series, where every sum and
\* product of the code is exact
ConstantIntegerSeriesGiveZero ==
    (RanPearson /\ Len(x) >= 4 /\ (Constant(x) \/ Constant(y)))
        => pearsonXY = ZeroCoef

(***************************************************************************)
(* C8: calculatePearsonCorrelation is symmetric: the coefficient of        *)
(* (x, y) equals the coefficient of (y, x).                                *)
(***************************************************************************)
C8_PearsonSymmetric == RanPearson => pearsonXY = pearsonYX

C8_Witness ==
    /\ RanPearson
    /\ Len(x) = 4
    /\ ~Constant(x) /\ ~Constant(y)
    /\ x # y
    /\ pearsonXY.sgn = -1
    /\ pearsonXY.p < pearsonXY.q
    /\ pearsonYX = pearsonXY

(***************************************************************************)
(* C9: for aligned integer-valued series the coefficient lies in [-1, 1]:  *)
(* (n*Sxy - Sx*Sy)^2 <= (n*Sxx - Sx^2) * (n*Syy - Sy^2) with both factors  *)
(* non-negative, and the value returned is a number of square at most 1.   *)
(***************************************************************************)
C9_CoefficientWithinUnit ==
    RanPearson =>
        LET n == Len(x)
            Sx == DotFrom(x, Ones(n), 1)
            Sy == DotFrom(y, Ones(n), 1)
            fx == n * DotFrom(x, x, 1) - Sx * Sx
            fy == n * DotFrom(y, y, 1) - Sy * Sy
            num == n * DotFrom(x, y, 1) - Sx * Sy
        IN  /\ fx >= 0 /\ fy >= 0
            /\ num * num <= fx * fy
            /\ pearsonXY.k = "number"
            /\ pearsonXY.p <= pearsonXY.q
            /\ pearsonXY.p * fx * fy = pearsonXY.q * num * num

C9_Witness ==
    /\ RanPearson
    /\ Len(x) = 4
    /\ ~Constant(x)
    /\ \E c \in {-1, 1} : \A i \in 1..Len(x) : y[i] = c * x[i]
    /\ pearsonXY.p = 1 /\ pearsonXY.q = 1

(***************************************************************************)
(* C10: for an object payload extractNumericValue returns the first field, *)
(* in the order value, level, duration, quality, severity, systolic,       *)
(* diastolic, that is present and holds a number (0 included); a field     *)
(* holding a non-number is skipped; with no such field the result is null. *)
(***************************************************************************)
ClaimedFieldOrder ==
    <<"value", "level", "duration", "quality", "severity", "systolic",
      "diastolic">>

RanExtract == "extractNumericValue" \in pc

C10_FirstNumericFieldReturned ==
    (RanExtract /\ payload.kind = "object") =>
        LET holds == {i \in 1..Len(ClaimedFieldOrder) :
                         payload.fields[ClaimedFieldOrder[i]].k = "number"}
        IN  IF holds = {} THEN extracted = Null
            ELSE LET first == CHOOSE i \in holds : \A o \in holds : i <= o
                 IN  extracted = payload.fields[ClaimedFieldOrder[first]]

(***************************************************************************)
(* C11: extractNumericValue is total: for every payload the value returned *)
(* is a finite number or null (no NaN, no Infinity, nothing else).         *)
(***************************************************************************)
C11_ExtractTotalFinite ==
    RanExtract => extracted.k \in {"number", "null"}

(***************************************************************************)
(* Reference quantities for the progress claims, stated over the goal, the *)
(* clock and the rows at the moment of a call.                             *)
(***************************************************************************)
ElapsedMs == GetTime(now) - GetTime(goal.start_date)

\* the least whole number of days covering the elapsed time
CeilDays ==
    CHOOSE k \in 0..(MaxProgressDays + 2) :
        /\ k * MsPerDay >= ElapsedMs
        /\ \A j \in 0..(MaxProgressDays + 2) :
              j * MsPerDay >= ElapsedMs => k <= j

TotalDaysElapsed == IF CeilDays < 1 THEN 1 ELSE CeilDays

DaysWithData ==
    Cardinality({goalData[i].date.day : i \in 1..Len(goalData)})

ClaimedCompletion ==
    IF DaysWithData >= TotalDaysElapsed THEN JsInt(100)
    ELSE Num(100 * DaysWithData, TotalDaysElapsed)

InPercentRange(v) == IsNumber(v) /\ 0 <= v.n /\ v.n <= 100 * v.d

\* `result` is what a call of calculateGoalProgress returns in this step
ProgressCall(result) ==
    \/ RunProgress /\ result = progress'
    \/ RerunProgress /\ result = progressAgain'

(***************************************************************************)
(* C12: every call of calculateGoalProgress (startDate <= now) returns     *)
(* completionPercentage = min(100, daysWithData / totalDaysElapsed * 100), *)
(* where totalDaysElapsed is ceil of the elapsed days floored at 1 and     *)
(* daysWithData is the number of distinct calendar days having a record.   *)
(***************************************************************************)
C12_CompletionPercentage ==
    [][\A result \in {progress', progressAgain'} :
          ProgressCall(result) =>
              result.completionPercentage = ClaimedCompletion]_vars

(***************************************************************************)
(* C13: every call of calculateGoalProgress on rows dated on or after      *)
(* startDate returns a consistency percentage equal to the completion      *)
(* percentage, both within [0, 100].                                       *)
(***************************************************************************)
C13_ConsistencyEqualsCompletion ==
    [][\A result \in {progress', progressAgain'} :
          ProgressCall(result) =>
              /\ result.dataConsistency = result.completionPercentage
              /\ InPercentRange(result.completionPercentage)
              /\ InPercentRange(result.dataConsistency)]_vars

(***************************************************************************)
(* C14: a call of calculateGoalProgress for a goal without rows (zero      *)
(* elapsed days included) returns totalEntries 0 and completion,           *)
(* consistency and averageEntriesPerDay all equal to the number 0.         *)
(***************************************************************************)
C14_NoRecordsGiveZeroProgress ==
    [][\A result \in {progress', progressAgain'} :
          (ProgressCall(result) /\ goalData = <<>>) =>
              /\ result.totalEntries = JsInt(0)
              /\ result.completionPercentage = JsInt(0)
              /\ result.dataConsistency = JsInt(0)
              /\ result.averageEntriesPerDay = JsInt(0)]_vars

(***************************************************************************)
(* C16: a later call of calculateGoalProgress on the same goal and the     *)
(* same unchanged rows returns the same progress result as the first call: *)
(* the result depends on nothing but the goal and the rows.                *)
(***************************************************************************)
C16_RerunIdentical ==
    "again" \in pc => progressAgain = progress

\* calculateTrends run again on the array it has sorted in place returns
\* the same result (checked under the trend specification)
TrendsRerunIdentical ==
    RanTrends => calculateTrends(healthData) = trends

(***************************************************************************)
(* C15: whenever a handler has called the summarizer, it responds with     *)
(* status 200 and a value produced by generateAIInsights or                *)
(* generateRecommendations; when the summarizer throws or its content does *)
(* not parse, that value is the same whatever the summarizer said.         *)
(***************************************************************************)
SummarizerCalled ==
    \E i \in 1..Len(effects) : effects[i] = "summarizer"

SummarizerFailed ==
    \/ env.reply.kind = "throws"
    \/ env.reply.kind = "content" /\ ~JsonParses(env.reply.text)

\* the generator behind the request served
GeneratorOf(req, reply) ==
    CASE req.handler = "generatePOST" -> generateAIInsights(reply)
      [] req.handler = "recommendations" -> generateRecommendations(reply)
      [] req.handler = "insightsGET" /\ req.endpoint = "recommendations" ->
             generateRecommendationsGET(reply)
      [] OTHER -> generateAIInsightsGET(reply)

\* the failing replies of the same kind as `reply`
SameFailure(reply) ==
    IF reply.kind = "throws" THEN {reply}
    ELSE {Reply("content", t) : t \in ProseTexts}

C15_SummarizerNeverFailsCaller ==
    SummarizerCalled =>
        /\ response.status = 200
        /\ response.body.kind \in {"parsed", "fallback", "parseFallback"}
        /\ SummarizerFailed =>
              \A other \in SameFailure(env.reply) :
                  response.body = GeneratorOf(request, other)

(***************************************************************************)
(* C17: a handler that got a request without userId responds with status   *)
(* 400, having issued no store query, called no summarizer and run no      *)
(* computation.                                                            *)
(***************************************************************************)
Served == pc # {}

C17_MissingUserIdGets400 ==
    (Served /\ ~request.hasUserId) =>
        /\ response.status = 400
        /\ effects = <<>>

\* a request rejected before its userId is looked at: the analytics handler
\* without a store client, a POST whose body does not parse
RejectedEarlier ==
    \/ request.handler = "analytics" /\ ~env.configured
    \/ ~request.bodyParses

(***************************************************************************)
(* C17 as the handlers have it: a request without userId is rejected with  *)
(* no effect at all; the status is 400, except that it is 500 when the     *)
(* analytics handler has no store client or a POST body does not parse.    *)
(***************************************************************************)
C17_MissingUserIdRejected ==
    (Served /\ ~request.hasUserId) =>
        /\ effects = <<>>
        /\ response.body.kind = "error"
        /\ response.status = IF RejectedEarlier THEN 500 ELSE 400

C17_Witness ==
    /\ Served /\ ~request.hasUserId
    /\ request.handler = "insightsGET"
    /\ response.status = 400 /\ effects = <<>>
    /\ ~env.dataError /\ env.reply.kind = "content"

(***************************************************************************)
(* C18: a create request whose timestamp is a non-empty text that is not a *)
(* valid date is rejected (no success status) and its handler leaves the   *)
(* store as it was.  (Both handlers take an empty text for an absent       *)
(* timestamp.)                                                             *)
(***************************************************************************)
TimestampInvalid(body) ==
    FieldTruthy(body.timestamp) /\ ~DateParses(body.timestamp.text)

C18_InvalidTimestampRejected ==
    [][\A body \in PostBodies("data/route.ts") \cup PostBodies("part_003") :
          (postBody' = body /\ TimestampInvalid(body)) =>
              /\ healthStore' = healthStore
              /\ postResponse' # 200]_vars

(***************************************************************************)
(* C19: every row of the store has a data_type of the 13-value             *)
(* enumeration, and a create request with any other dataType is answered   *)
(* with status 400.                                                        *)
(***************************************************************************)
C19_StoredTypesInEnumeration ==
    /\ \A i \in 1..Len(healthStore) :
          healthStore[i].data_type \in validDataTypes
    /\ (pc # {} /\ postBody.parses /\ postBody.dataType.present
        /\ postBody.dataType.text \notin validDataTypes
        /\ (postBody.route = "part_003" => storeEnv.configured)) =>
           postResponse = 400

(***************************************************************************)
(* Reference quantities for the summary claim: the rows that have a        *)
(* numeric value and the mean over them.                                   *)
(***************************************************************************)
TypeIdx(type) ==
    {i \in 1..Len(summaryData) : summaryData[i].data_type = type}

\* the row's number lives in the value column
ValueIdx == {i \in 1..Len(summaryData) : IsNumber(summaryData[i].value)}

\* the payload of a row: its data column, else its wrapper column
PayloadOf(row) == IF row.data # AbsentPayload THEN row.data ELSE row.wrapper

PayloadIdx ==
    {i \in 1..Len(summaryData) : NumericPayload(PayloadOf(summaryData[i]))}

\* the number a numeric payload carries
PayloadNumber(data) ==
    IF data.kind = "number" THEN data.num.n
    ELSE LET holds == {i \in 1..Len(numericFields) :
                          data.fields[numericFields[i]].k = "number"}
             first == CHOOSE i \in holds : \A o \in holds : i <= o
         IN  data.fields[numericFields[first]].n

RECURSIVE SumOf(_, _)
SumOf(f, S) ==
    IF S = {} THEN 0
    ELSE LET i == CHOOSE m \in S : TRUE
         IN  f[i] + SumOf(f, S \ {i})

\* m is the mean of f over S, or 0 when S is empty
IsMeanOver(m, f, S) ==
    /\ IsNumber(m)
    /\ IF S = {} THEN m.n = 0
       ELSE m.n * Cardinality(S) = m.d * SumOf(f, S)

ValueColumn ==
    [i \in 1..Len(summaryData) |->
        IF IsNumber(summaryData[i].value) THEN summaryData[i].value.n ELSE 0]

PayloadColumn ==
    [i \in 1..Len(summaryData) |->
        IF NumericPayload(PayloadOf(summaryData[i]))
        THEN PayloadNumber(PayloadOf(summaryData[i])) ELSE 0]

PreparedAveragesAreMeans ==
    "prepareDataSummary" \in pc =>
        \A type \in DOMAIN dataSummary.byType :
            IsMeanOver(dataSummary.byType[type].average, ValueColumn,
                       TypeIdx(type) \cap ValueIdx)

SummaryAverageIsMean ==
    "calculateSummary" \in pc =>
        IsMeanOver(summary.averageValue, ValueColumn, ValueIdx)

EntryAveragesAreMeans ==
    "calculateAverageValue" \in pc =>
        \A type \in DataTypes :
            IsMeanOver(avgValue[type], PayloadColumn,
                       TypeIdx(type) \cap PayloadIdx)

(***************************************************************************)
(* C20: the average a summary function reports for a data type (or for the *)
(* whole collection) is the arithmetic mean over only the rows that have a *)
(* numeric value, and 0 when no row has one.                               *)
(***************************************************************************)
C20_AverageOverNumericRecords ==
    /\ PreparedAveragesAreMeans
    /\ SummaryAverageIsMean
    /\ EntryAveragesAreMeans

(***************************************************************************)
(* Reference quantities for the date range claim: the earliest and the     *)
(* latest created_at among the rows.                                       *)
(***************************************************************************)
Earliest ==
    CHOOSE t \in {summaryData[i].created_at : i \in 1..Len(summaryData)} :
        \A i \in 1..Len(summaryData) : t <= summaryData[i].created_at

Latest ==
    CHOOSE t \in {summaryData[i].created_at : i \in 1..Len(summaryData)} :
        \A i \in 1..Len(summaryData) : t >= summaryData[i].created_at

SpansRows(dateRange) ==
    IF summaryData = <<>>
    THEN dateRange.start = Null /\ dateRange.end = Null
    ELSE dateRange.start = JsInt(Earliest) /\ dateRange.end = JsInt(Latest)

PreparedRangeSpansRows ==
    "prepareDataSummary" \in pc => SpansRows(dataSummary.dateRange)

SummaryRangeSpansRows ==
    "calculateSummary" \in pc => SpansRows(summary.dateRange)

(***************************************************************************)
(* C21: for a non-empty collection the summary's dateRange.start is the    *)
(* earliest created_at among the rows and dateRange.end the latest; for    *)
(* an empty collection both are null.                                      *)
(***************************************************************************)
C21_DateRangeSpansRows ==
    /\ PreparedRangeSpansRows
    /\ SummaryRangeSpansRows

(***************************************************************************)
(* Reference quantities for the pair enumeration claim.                    *)
(***************************************************************************)
\* the types that have a row on some day of the window
TypesInWindow == {corrData[i].data_type : i \in 1..Len(corrData)}

\* the types that have a row on the first day of the window
TypesOnFirstDay ==
    {corrData[i].data_type :
        i \in {m \in 1..Len(corrData) :
                  corrData[m].date.day = corrData[1].date.day}}

(***************************************************************************)
(* C22: every unordered pair of distinct data types occurring on any day   *)
(* of the window is considered: a pair with at least 4 shared days and     *)
(* |r| > 0.3 appears in the output, also when one of its types has no row  *)
(* on the first day.                                                       *)
(***************************************************************************)
C22_EveryPairConsidered ==
    RanCorrelations =>
        \A pr \in TypePairs :
            LET S == SharedDays(pr[1], pr[2])
                r == calculatePearsonCorrelation(DayVector(S, pr[1], 1),
                                                 DayVector(S, pr[2], 1))
            IN  /\ {pr[1], pr[2]} \subseteq TypesInWindow
                /\ Cardinality(S) >= 4
                /\ AbsGreater(r, 3, 10)
                => EntriesOf(pr[1], pr[2]) # {}

\* the same with both types logged on the first day
PairOnFirstDayConsidered ==
    RanCorrelations =>
        \A pr \in TypePairs :
            LET S == SharedDays(pr[1], pr[2])
                r == calculatePearsonCorrelation(DayVector(S, pr[1], 1),
                                                 DayVector(S, pr[2], 1))
            IN  /\ {pr[1], pr[2]} \subseteq TypesOnFirstDay
                /\ Cardinality(S) >= 4
                /\ AbsGreater(r, 3, 10)
                => EntriesOf(pr[1], pr[2]) # {}

(***************************************************************************)
(* C23: for every pair in the correlation output, dataPoints is the number *)
(* of days on which both types have a value the normalizer extracts a      *)
(* number from; a day on which a type's value is 0 counts.                 *)
(***************************************************************************)
C23_DataPointsCountSharedDays ==
    RanCorrelations =>
        \A i \in 1..Len(correlations) :
            correlations[i].dataPoints =
                Cardinality(SharedDays(correlations[i].type1,
                                       correlations[i].type2))

(***************************************************************************)
(* Reference quantities for the grouping claim.                            *)
(***************************************************************************)
EntriesOn(day, type) ==
    {i \in 1..Len(entryRows) :
        entryRows[i].date.day = day /\ entryRows[i].data_type = type}

FirstEntryOn(day, type) ==
    CHOOSE i \in EntriesOn(day, type) : \A o \in EntriesOn(day, type) : i <= o

(***************************************************************************)
(* C24: when several rows of one data type fall on one calendar day, the   *)
(* value groupDataByDate keeps for that day and type is that of the first  *)
(* such row in input order.                                                *)
(***************************************************************************)
C24_FirstRowOfDayKept ==
    "groupDataByDate" \in pc =>
        \A d \in 1..Len(grouped) : \A type \in DataTypes :
            EntriesOn(grouped[d].date, type) # {} =>
                grouped[d].data[type] =
                    entryRows[FirstEntryOn(grouped[d].date, type)].data

\* with at most one row per day and type the row's data is kept
OnlyRowOfDayKept ==
    "groupDataByDate" \in pc =>
        \A d \in 1..Len(grouped) : \A type \in DataTypes :
            Cardinality(EntriesOn(grouped[d].date, type)) = 1 =>
                grouped[d].data[type] =
                    entryRows[FirstEntryOn(grouped[d].date, type)].data

(***************************************************************************)
(* Reference quantities for the claim on the number used for a row: a      *)
(* reading that is no number counts as no value.                           *)
(***************************************************************************)
Used(v) == IF IsNumber(v) THEN v ELSE Null

\* a row whose data column is truthy is read alike by the two analyses
\* of part_001
AverageMatchesCorrelation ==
    "operands" \in pc =>
        \A i \in 1..Len(operands) :
            TruthyPayload(entryRows[i].data) =>
                Used(operands[i].average) = Used(operands[i].correlation)

TrendMatchesSummary ==
    "operands" \in pc =>
        \A i \in 1..Len(operands) :
            Used(operands[i].trend) = Used(operands[i].summary)

(***************************************************************************)
(* C26: for every row the number used is the same in every analysis: the   *)
(* per-day average, the correlation vectors, and the trend and summary     *)
(* means read equal values, also for a row whose number lives only in the  *)
(* <data_type>_data wrapper.                                               *)
(***************************************************************************)
C26_SameNumberInEveryAnalysis ==
    "operands" \in pc =>
        \A i \in 1..Len(operands) :
            /\ Used(operands[i].average) = Used(operands[i].correlation)
            /\ Used(operands[i].correlation) = Used(operands[i].trend)
            /\ Used(operands[i].trend) = Used(operands[i].summary)

(***************************************************************************)
(* Reference quantities for the output order claim.  A coefficient r is    *)
(* held as its sign and r^2 = p / q; a reported coefficient is a rational  *)
(* n / d with d dividing 100.                                              *)
(***************************************************************************)
Hundredths(e) == Abs(e.correlation.n) * (100 \div e.correlation.d)

\* the days that enter the vectors of a pair: the shared days on which
\* neither value is 0 (a day with a value of 0 is not paired, see C23)
SampledDays(a, b) ==
    {day \in SharedDays(a, b) :
        DayValue(day, a) # 0 /\ DayValue(day, b) # 0}

\* the Pearson coefficient of the pair of an output entry
PearsonOf(e) ==
    LET S == SampledDays(e.type1, e.type2)
    IN  calculatePearsonCorrelation(DayVector(S, e.type1, 1),
                                    DayVector(S, e.type2, 1))

\* the reported value is r rounded to a hundredth
IsRoundedTo2(e) ==
    LET r == PearsonOf(e)
        h == Hundredths(e)
    IN  /\ e.correlation.k = "number"
        /\ 100 % e.correlation.d = 0
        /\ r.k = "number"
        /\ (e.correlation.n > 0 => r.sgn > 0)
        /\ (e.correlation.n < 0 => r.sgn < 0)
        /\ (h > 0 => (2 * h - 1) * (2 * h - 1) * r.q <= 40000 * r.p)
        /\ 40000 * r.p <= (2 * h + 1) * (2 * h + 1) * r.q

(***************************************************************************)
(* C25: the list calculateCorrelations returns is ordered by               *)
(* non-increasing absolute value of the reported coefficient, and each     *)
(* reported coefficient is the Pearson coefficient rounded to 2 decimal    *)
(* places.                                                                 *)
(***************************************************************************)
C25_SortedAndRounded ==
    RanCorrelations =>
        /\ \A i \in 1..Len(correlations) : \A j \in 1..Len(correlations) :
              i < j => Hundredths(correlations[i])
                           >= Hundredths(correlations[j])
        /\ \A i \in 1..Len(correlations) : IsRoundedTo2(correlations[i])

\* three pairs reported, the strongest of them not formed first by the
\* loops, and a coefficient that rounding changes
C25_Witness ==
    /\ RanCorrelations
    /\ Len(correlations) = 3
    /\ <<correlations[1].type1, correlations[1].type2>> # <<"sleep", "stress">>
    /\ Hundredths(correlations[1]) > Hundredths(correlations[3])
    /\ \E i \in 1..3 :
          LET r == PearsonOf(correlations[i])
              h == Hundredths(correlations[i])
          IN  h * h * r.q # 10000 * r.p

(***************************************************************************)
(* Reference quantities for the OAuth callback claims.                     *)
(***************************************************************************)
ClinicalTypes == {resourceTypes[i].type : i \in 1..Len(resourceTypes)}

\* the positions of sent that hold a request for a clinical resource type
ResourceRequests == {i \in 1..Len(sent) : sent[i].to \in ClinicalTypes}

TokenRequests == {i \in 1..Len(sent) : sent[i].to = "token"}

Responded == pc = {"responded"} /\ callback # ""

(***************************************************************************)
(* C27: every request for a clinical resource type the fetch loop sends    *)
(* carries patient=<the patient's FHIR id>, so every upserted row that     *)
(* names a patient_fhir_id was fetched under that patient's filter.        *)
(***************************************************************************)
C27_ResourceRequestsFiltered ==
    /\ \A i \in ResourceRequests :
          /\ FieldTruthy(sent[i].patient)
          /\ sent[i].patient = knownPatient.fhir_id
    /\ \A u \in 1..Len(upserts) :
          FieldTruthy(upserts[u].patient_fhir_id) =>
              upserts[u].fetchedFor = upserts[u].patient_fhir_id

\* the same for the handlers other than part_007
FilteredOutsidePart007 ==
    callback # Part007 => C27_ResourceRequestsFiltered

(***************************************************************************)
(* C28: in an Epic callback no clinical resource is fetched and no row is  *)
(* upserted unless, earlier in the same execution, the token exchange      *)
(* succeeded, a patient FHIR id was resolved, and that id matched a known  *)
(* patient (a hardcoded sandbox patient or a row of the patients table).   *)
(***************************************************************************)
C28_FetchOnlyForKnownPatient ==
    (ResourceRequests # {} \/ upserts # <<>>) =>
        /\ \A i \in ResourceRequests : \E t \in TokenRequests : t < i
        /\ tokenData.received
        /\ FieldTruthy(patientFhirId)
        /\ knownPatient.fhir_id = patientFhirId
        /\ \/ knownPatient.from = "PATIENTS"
              /\ patientFhirId.text \in PATIENTS
           \/ knownPatient.from = "patients"
              /\ callback = EpicRoute

\* rows upserted for a patient found in the patients table
C28_Witness ==
    /\ callback = EpicRoute
    /\ upserts # <<>>
    /\ knownPatient.from = "patients"
    /\ patientFhirId = OtherId

(***************************************************************************)
(* Reference quantities for the missing code claim.                        *)
(***************************************************************************)
ErrorPages ==
    {ErrorPage, "<origin>/error?reason=missing_code",
     "<origin>/error?reason=<error>", "/error?reason=missing_code",
     "/error?reason=<error>"}

NoCode == ~search.code.present

RejectedAsClaimed ==
    \/ answer.status = 400
    \/ answer.kind = "redirect" /\ answer.to \in ErrorPages

\* C29 as stated: a request without a code ends in status 400 or a
\* redirect to the error page, and no token request is sent for it
C29_MissingCodeGets400OrErrorPage ==
    (callback # "" /\ NoCode) =>
        /\ TokenRequests = {}
        /\ Responded
        /\ RejectedAsClaimed

(***************************************************************************)
(* The part of C29 that holds in every handler: a request without an       *)
(* authorization code gets a response and no token request is sent for     *)
(* it; the response is status 400 or a redirect to the error page, except  *)
(* in the handler of part_004, where the framework may reject the          *)
(* relative redirect target and answer 500.                                *)
(***************************************************************************)
C29_MissingCodeRejected ==
    (callback # "" /\ NoCode) =>
        /\ TokenRequests = {}
        /\ Responded
        /\ \/ RejectedAsClaimed
           \/ callback = Part004 /\ answer = Uncaught

\* the Cerner handler answers 400 and has sent nothing
C29_Witness ==
    /\ Responded /\ NoCode
    /\ callback = Cerner
    /\ answer = Json(400)
    /\ sent = <<>>

(***************************************************************************)
(* Reference quantities for the fetch loop claim.                          *)
(***************************************************************************)
AllTypesInOrder == [i \in 1..Len(resourceTypes) |-> resourceTypes[i].type]

SuccessAnswers == {Json(200), Redirect(HomePage), Redirect(InsightsPage)}

(***************************************************************************)
(* C30: a failed fetch or a failed upsert for one resource type never      *)
(* stops the loop: each of the 10 resource types is attempted exactly      *)
(* once, in the listed order, and the callback then returns its success    *)
(* response.                                                               *)
(***************************************************************************)
C30_FailuresDoNotStopLoop ==
    /\ \A i \in 1..Len(attempted) : attempted[i] = AllTypesInOrder[i]
    /\ (Responded /\ attempted # <<>> /\ "entry" \notin failed) =>
          /\ attempted = AllTypesInOrder
          /\ answer \in SuccessAnswers

\* a fetch and an upsert failed, and the handler still went through all
\* ten types and answered with success
C30_Witness ==
    /\ Responded
    /\ failed = {"fetch", "upsert"}
    /\ attempted = AllTypesInOrder
    /\ answer \in SuccessAnswers

====
